---- MODULE Spec2Model ----
(***************************************************************************)
(* Round resolution engine of the "Cow King" (6 Nimmt!) card game, as     *)
(* implemented by src/App.tsx and the game-logic functions of             *)
(* src/services/aiService.ts (generateDeck .. calculateRoundScore).       *)
(*                                                                         *)
(* The React component is modelled as a state machine: the useState cells  *)
(* are the variables, every event handler / timeout callback / effect is   *)
(* an action, and every closure that a setTimeout or an await keeps alive  *)
(* is an entry of `pending` carrying the arguments it captured.  Player    *)
(* objects are shared by reference between the React state and the         *)
(* closures and the code assigns to their collectedCards field in place;   *)
(* the field therefore lives in the heap `collected`, indexed by the       *)
(* object identity `obj` of a player record.                               *)
(*                                                                         *)
(* Card ids, row indices and step indices keep the values of the source    *)
(* (cards 1..TOTAL_CARDS, indices from 0, -1 for "none"); 0 stands for a   *)
(* null/undefined card.  The deck, hand, board and row sizes are scaled    *)
(* down (see the bounds below) so that TLC can enumerate every run.        *)
(***************************************************************************)
EXTENDS Integers, Sequences, FiniteSets, TLC

(* ------------------------------ bounds -------------------------------- *)

\* cards dealt to each player by startRound (HAND_SIZE = 10 in the source)
HAND_SIZE == 2

\* rows on the board (the literal 4 of startRound / the timer in the source)
NumRows == 2

\* cards a row may hold before the next card captures it (5 in the source)
MaxRowLen == 2

\* players of a match (hostConfig.totalPlayers, 2..8 in the source)
MaxPlayers == 2

\* players of a match in a room with a client and a bot (see SpecRoom)
RoomPlayers == 3

\* clients that join a room
MaxClients == 1

\* clients that join a room in which the start of a game is examined (see
\* SpecLobby): with the host, one player more than the deck has cards for
LobbyClients == 3

\* cards of the deck beyond those dealt (the undealt remainder of a round)
SpareCards == 1

\* number of distinct random-draw sequences Math.random may produce
NumSeeds == 2

\* client messages that may wait in the host's action queue at one time
MaxActions == 1

\* inputs of a match that may race an answer the program already waits for
\* (a second row choice, a deadline passing before a bot answered); once
\* that many have, the pending callbacks are followed with no further input
MaxRaces == 1

\* callbacks that are followed after the last such race
MaxAftermath == 7

\* rounds of a match that are played
MaxRound == 1

\* deck size (TOTAL_CARDS = 104 in the source), scaled with the bounds
TOTAL_CARDS == NumRows + HAND_SIZE * RoomPlayers + SpareCards

Cards == 1..TOTAL_CARDS

NoCard == 0

(* --------------------------- sequence helpers -------------------------- *)

Range(s) == {s[i] : i \in DOMAIN s}

Last(s) == s[Len(s)]

Take(s, n) == SubSeq(s, 1, IF n < Len(s) THEN n ELSE Len(s))

Drop(s, n) == SubSeq(s, (IF n < Len(s) THEN n ELSE Len(s)) + 1, Len(s))

Min(S) == CHOOSE x \in S : \A y \in S : x <= y

RECURSIVE SortAsc(_)
\* Array.prototype.sort((a, b) => a - b) on distinct numbers
SortAsc(S) ==
    IF S = {} THEN <<>> ELSE <<Min(S)>> \o SortAsc(S \ {Min(S)})

RECURSIVE InsertTurn(_, _)
InsertTurn(t, s) ==
    IF s = <<>> THEN <<t>>
    ELSE IF t.card < s[1].card THEN <<t>> \o s
    ELSE <<s[1]>> \o InsertTurn(t, Tail(s))

RECURSIVE SortTurns(_)
\* the stable sort((a, b) => a.card.id - b.card.id) of revealCards:
\* insertion from the back keeps equal ids in their original order
SortTurns(s) ==
    IF s = <<>> THEN <<>> ELSE InsertTurn(s[1], SortTurns(Tail(s)))

(* ----------------------- gameLogic: pure functions --------------------- *)

\* a getBullHeads without the test for 55
getBullHeadsNo55(num) ==
    IF num % 11 = 0 THEN 5
    ELSE IF num % 10 = 0 THEN 3
    ELSE IF num % 5 = 0 THEN 2
    ELSE 1

getBullHeads(num) ==
    IF num = 55 THEN 7
    ELSE IF num % 11 = 0 THEN 5
    ELSE IF num % 10 = 0 THEN 3
    ELSE IF num % 5 = 0 THEN 2
    ELSE 1

generateDeck == [i \in 1..TOTAL_CARDS |-> i]

\* an exchange that writes one of the two places only
SwapOne(s, a, b) == [s EXCEPT ![a] = s[b]]

Swap(s, a, b) == [s EXCEPT ![a] = s[b], ![b] = s[a]]

RECURSIVE shuffleFrom(_, _, _)
\* the loop of shuffleDeck at index i (0-based); rnd[i] is the value of
\* Math.floor(Math.random() * (i + 1)) drawn in that iteration
shuffleFrom(d, i, rnd) ==
    IF i < 1 THEN d
    ELSE shuffleFrom(Swap(d, i + 1, rnd[i] + 1), i - 1, rnd)

shuffleDeck(d, rnd) == shuffleFrom(d, Len(d) - 1, rnd)

\* the draw sequence of one run of the random generator, named by a seed
Draws(seed) == [i \in 1..(TOTAL_CARDS - 1) |-> (2 * seed * i) % (i + 1)]

\* a findTargetRowIndex that never looks at the card: the first row
findTargetRowIndexZero(card, rws) == IF rws = <<>> THEN -1 ELSE 0

\* a findTargetRowIndex that stops at the first row ending below the card
findTargetRowIndexFirst(card, rws) ==
    LET below == {i \in DOMAIN rws : Len(rws[i]) > 0 /\ Last(rws[i]) < card}
    IN  IF below = {} THEN -1 ELSE Min(below) - 1

RECURSIVE findFrom(_, _, _, _, _)
\* the forEach of findTargetRowIndex from row `index` (0-based) on, with
\* the accumulators bestRowIndex and minDiff (-1 stands for Infinity)
findFrom(cardId, rws, index, bestRowIndex, minDiff) ==
    IF index >= Len(rws) THEN bestRowIndex
    ELSE LET row == rws[index + 1] IN
         IF Len(row) = 0
         THEN findFrom(cardId, rws, index + 1, bestRowIndex, minDiff)
         ELSE LET lastCardId == Last(row)
                  diff == cardId - lastCardId
              IN  IF cardId > lastCardId /\ (minDiff = -1 \/ diff < minDiff)
                  THEN findFrom(cardId, rws, index + 1, index, diff)
                  ELSE findFrom(cardId, rws, index + 1, bestRowIndex, minDiff)

findTargetRowIndex(card, rws) == findFrom(card, rws, 0, -1, -1)

RECURSIVE sumBullHeads(_)
sumBullHeads(cards) ==
    IF cards = <<>> THEN 0
    ELSE getBullHeads(cards[1]) + sumBullHeads(Tail(cards))

(* ------------------------------- state --------------------------------- *)

VARIABLES
    players,          \* useState: Player[]
    rows,             \* useState: GameRow[] (each row the sequence of its card ids)
    phase,            \* useState: GamePhase
    currentRound,     \* useState
    activePlayerId,   \* useState
    turnCards,        \* useState: the sorted turn batch
    resolvingIndex,   \* useState
    votes,            \* useState: playerId -> boolean, as a set of pairs
    turnDeadline,     \* useState: 0, or 1 for a deadline that is armed
    hostConfig,       \* useState: lobby configuration
    networkMode,      \* useState
    myPlayerId,       \* useState
    thinkingBots,     \* thinkingBotsRef.current
    collected,        \* heap: object identity -> that object's collectedCards
    pending,          \* closures kept alive by setTimeout / await, with counts
    timerEnv,         \* what the closure of the running timer effect captured
    actions,          \* Firebase rooms/<id>/actions: messages not yet handled
    gameState,        \* Firebase rooms/<id>/gameState: the last snapshot written
    deck,             \* startRound's local deck after dealing (undealt cards)
    resolved,         \* history: card id -> how often its step of the batch was applied
    races,            \* history: inputs that raced a row choice under way
    aftermath,        \* history: callbacks run since the last race allowed
    event             \* history: the handler that ran last, with its arguments

vars == <<players, rows, phase, currentRound, activePlayerId, turnCards,
          resolvingIndex, votes, turnDeadline, hostConfig, networkMode,
          myPlayerId, thinkingBots, collected, pending, timerEnv, actions,
          gameState, deck, resolved, races, aftermath, event>>

NoPlayer == "none"

HumanIds == <<"p1", "p2", "p3", "p4">>

BotIds == <<"bot-0", "bot-1", "bot-2", "bot-3">>

ClientIds == <<"c1", "c2", "c3">>

\* the React state and refs as one record, so that a handler is an operator
\* from the state it reads to the state it leaves
S == [players |-> players, rows |-> rows, phase |-> phase,
      currentRound |-> currentRound, activePlayerId |-> activePlayerId,
      turnCards |-> turnCards, resolvingIndex |-> resolvingIndex,
      votes |-> votes, turnDeadline |-> turnDeadline, hostConfig |-> hostConfig,
      networkMode |-> networkMode, myPlayerId |-> myPlayerId,
      thinkingBots |-> thinkingBots, collected |-> collected,
      pending |-> pending, actions |-> actions, gameState |-> gameState,
      timerEnv |-> timerEnv, deck |-> deck, resolved |-> resolved,
      races |-> races, event |-> event, rearmed |-> FALSE, fresh |-> FALSE]

NoEvent == [name |-> "init", player |-> NoPlayer, card |-> NoCard, row |-> -1,
            index |-> -1, rowsBefore |-> <<>>, collBefore |-> <<>>, players |-> <<>>,
            timer |-> FALSE]

\* the record of a handler run: its name, the player, card, row and step it
\* was about, and the board and that player's collectedCards before it ran;
\* `timer` tells that the interval callback of the turn timer called it
Ev(name, player, card, row, index, rowsBefore, collBefore) ==
    [name |-> name, player |-> player, card |-> card, row |-> row,
     index |-> index, rowsBefore |-> rowsBefore, collBefore |-> collBefore,
     players |-> <<>>, timer |-> FALSE]

NoEnv == [players |-> <<>>, rows |-> <<>>, turnCards |-> <<>>, resolvingIndex |-> -1]

NoGameState == [players |-> <<>>, rows |-> <<>>, phase |-> "NONE",
                activePlayerId |-> NoPlayer, confirmed |-> {}]

\* a closure: the callback to run (kind) and the arguments it captured
Closure(kind, index, turns, rws, ps, rowIndex, bot, hand) ==
    [kind |-> kind, index |-> index, turns |-> turns, rows |-> rws,
     players |-> ps, rowIndex |-> rowIndex, bot |-> bot, hand |-> hand]

AddPending(pend, c) ==
    IF \E e \in pend : e.c = c
    THEN {IF e.c = c THEN [e EXCEPT !.n = @ + 1] ELSE e : e \in pend}
    ELSE pend \cup {[c |-> c, n |-> 1]}

RemovePending(pend, c) ==
    {e \in {IF e.c = c THEN [e EXCEPT !.n = @ - 1] ELSE e : e \in pend} : e.n > 0}

Schedule(s, c) == [s EXCEPT !.pending = AddPending(s.pending, c)]

IndexOf(ps, id) ==
    IF \E i \in DOMAIN ps : ps[i].id = id
    THEN Min({i \in DOMAIN ps : ps[i].id = id})
    ELSE 0

\* p.collectedCards of a player object
CollectedOf(s, p) == s.collected[p.obj]

\* the collectedCards of player `id` as the React state shows them
StateCollected(s, id) ==
    IF IndexOf(s.players, id) = 0 THEN <<>>
    ELSE s.collected[s.players[IndexOf(s.players, id)].obj]

(* -------------------------- object identities -------------------------- *)

RECURSIVE FreshObjs(_, _)
\* k object identities that no live object has
FreshObjs(used, k) ==
    IF k = 0 THEN <<>>
    ELSE LET o == Min((1..(Cardinality(used) + 1)) \ used)
         IN  <<o>> \o FreshObjs(used \cup {o}, k - 1)

\* { ...p, <changes> } for the positions in I of the array ps: each is a new
\* object, whose collectedCards is the array the old object had (or [] when
\* `reset`); ps already holds the changed fields
Spread(s, ps, I, reset) ==
    LET idx == SortAsc(I)
        fresh == FreshObjs(DOMAIN s.collected, Len(idx))
        newObj == [i \in I |-> fresh[CHOOSE k \in DOMAIN idx : idx[k] = i]]
        newPs == [i \in DOMAIN ps |->
                    IF i \in I THEN [ps[i] EXCEPT !.obj = newObj[i]] ELSE ps[i]]
        newColl == [o \in DOMAIN s.collected \cup Range(fresh) |->
                    IF o \in DOMAIN s.collected THEN s.collected[o]
                    ELSE LET i == CHOOSE j \in I : newObj[j] = o
                         IN  IF reset \/ ps[i].obj \notin DOMAIN s.collected
                             THEN <<>> ELSE s.collected[ps[i].obj]]
    IN  [players |-> newPs, collected |-> newColl]

(* ------------------------------ networking ----------------------------- *)

\* the players array as Firebase serialises it: values, no shared objects
Serialise(s, ps) ==
    [i \in DOMAIN ps |->
        [id |-> ps[i].id, type |-> ps[i].type, hand |-> ps[i].hand,
         selectedCard |-> ps[i].selectedCard, isReady |-> ps[i].isReady]]

\* syncState(p, r, ph, tc, ri, ap): the host writes a snapshot; of the
\* snapshot's fields a client's handlers read players, phase and, in
\* CHOOSING_ROW (where it is passed explicitly), activePlayerId.  A client
\* replaces its whole state by the snapshot, which undoes the isReady its
\* own confirmSelection had set (`confirmed`: the clients that have it set)
syncState(s, p, r, ph, ap) ==
    IF s.networkMode = "HOST"
    THEN [s EXCEPT !.gameState = [players |-> Serialise(s, p), rows |-> r,
                                  phase |-> ph, activePlayerId |-> ap,
                                  confirmed |-> {}]]
    ELSE s

(* ------------------------------ game logic ----------------------------- *)

NewPlayer(id, type) ==
    [id |-> id, type |-> type, hand |-> <<>>, obj |-> 0, scoreHistory |-> <<>>,
     totalScore |-> 0, selectedCard |-> NoCard, isReady |-> FALSE]

\* config.turnDuration > 0 ? Date.now() + config.turnDuration * 1000 : 0
SetDeadline(s, config) ==
    [s EXCEPT !.turnDeadline = IF config.turnDuration > 0 THEN 1 ELSE 0,
              !.rearmed = config.turnDuration > 0]

\* the players startRound deals to: the given ones, or a fresh table
InitialPlayers(s, inputPlayers, config, closureRound) ==
    LET totalNeeded == config.totalPlayers
        needsInitialization ==
            \/ Len(inputPlayers) = 0
            \/ /\ s.networkMode = "HOST"
               /\ Len(inputPlayers) < totalNeeded
               /\ closureRound = 1
        humansNeeded == IF config.localHumans < totalNeeded
                        THEN config.localHumans ELSE totalNeeded
        botsNeeded == totalNeeded - humansNeeded
        hostBots == IF totalNeeded - Len(inputPlayers) > 0
                    THEN totalNeeded - Len(inputPlayers) ELSE 0
    IN  IF ~needsInitialization THEN inputPlayers
        ELSE IF s.networkMode = "LOCAL"
        THEN [i \in 1..humansNeeded |-> NewPlayer(HumanIds[i], "HUMAN")]
             \o [i \in 1..botsNeeded |-> NewPlayer(BotIds[i], "BOT")]
        ELSE IF s.networkMode = "HOST"
        THEN inputPlayers \o [i \in 1..hostBots |-> NewPlayer(BotIds[i], "BOT")]
        ELSE inputPlayers

\* deck.shift()!: the first card, undefined (NoCard) when the deck is empty
Shift(d) == IF d = <<>> THEN NoCard ELSE d[1]

\* a startRound that spreads the players without `collectedCards: []`
startRoundKeeps(s, inputPlayers, config, closureRound, rnd) ==
    LET currentPlayers == InitialPlayers(s, inputPlayers, config, closureRound)
        shuffled == shuffleDeck(generateDeck, rnd)
        n == Len(currentPlayers)
        dealt == [i \in 1..n |->
                    [currentPlayers[i] EXCEPT
                        !.hand = SortAsc(Range(Take(Drop(shuffled, (i - 1) * HAND_SIZE),
                                                    HAND_SIZE))),
                        !.selectedCard = NoCard,
                        !.isReady = FALSE]]
        rest == Drop(shuffled, n * HAND_SIZE)
        newRows == [i \in 1..NumRows |-> <<Shift(Drop(rest, i - 1))>>]
        sp == Spread(s, dealt, 1..n, FALSE)
        s1 == [s EXCEPT !.players = sp.players, !.collected = sp.collected,
                        !.rows = newRows, !.turnCards = <<>>,
                        !.resolvingIndex = -1, !.phase = "PLAYER_CHOICE",
                        !.votes = {}, !.thinkingBots = {},
                        !.deck = Drop(rest, NumRows),
                        !.resolved = [c \in Cards |-> 0],
                        !.event = Ev("startRound", NoPlayer, NoCard, -1, -1, <<>>, <<>>)]
        s2 == SetDeadline(s1, config)
    IN  syncState(s2, sp.players, newRows, "PLAYER_CHOICE", NoPlayer)

startRound(s, inputPlayers, config, closureRound, rnd) ==
    LET currentPlayers == InitialPlayers(s, inputPlayers, config, closureRound)
        shuffled == shuffleDeck(generateDeck, rnd)
        n == Len(currentPlayers)
        dealt == [i \in 1..n |->
                    [currentPlayers[i] EXCEPT
                        !.hand = SortAsc(Range(Take(Drop(shuffled, (i - 1) * HAND_SIZE),
                                                    HAND_SIZE))),
                        !.selectedCard = NoCard,
                        !.isReady = FALSE]]
        rest == Drop(shuffled, n * HAND_SIZE)
        newRows == [i \in 1..NumRows |-> <<Shift(Drop(rest, i - 1))>>]
        sp == Spread(s, dealt, 1..n, TRUE)
        s1 == [s EXCEPT !.players = sp.players, !.collected = sp.collected,
                        !.rows = newRows, !.turnCards = <<>>,
                        !.resolvingIndex = -1, !.phase = "PLAYER_CHOICE",
                        !.votes = {}, !.thinkingBots = {},
                        !.deck = Drop(rest, NumRows),
                        !.resolved = [c \in Cards |-> 0],
                        !.event = Ev("startRound", NoPlayer, NoCard, -1, -1, <<>>, <<>>)]
        s2 == SetDeadline(s1, config)
    IN  syncState(s2, sp.players, newRows, "PLAYER_CHOICE", NoPlayer)

getMyPlayer(s) == IndexOf(s.players, s.myPlayerId)

\* a guard that is content with one player who has chosen
anySelected(currentPlayers) ==
    \E i \in DOMAIN currentPlayers :
        currentPlayers[i].selectedCard # NoCard /\ currentPlayers[i].isReady

\* currentPlayers.every(p => !!p.selectedCard && p.isReady)
allSelected(currentPlayers) ==
    \A i \in DOMAIN currentPlayers :
        currentPlayers[i].selectedCard # NoCard /\ currentPlayers[i].isReady

\* revealCards(currentPlayers, currentRows) called from a closure whose own
\* `rows` is closureRows: that is the board startResolving will read
revealCards(s, currentPlayers, currentRows, closureRows) ==
    LET turns == SortTurns([i \in DOMAIN currentPlayers |->
                    [playerId |-> currentPlayers[i].id,
                     card |-> currentPlayers[i].selectedCard]])
        without == [i \in DOMAIN currentPlayers |->
                    [currentPlayers[i] EXCEPT
                        !.hand = SelectSeq(@, LAMBDA c :
                                     c # currentPlayers[i].selectedCard),
                        !.selectedCard = NoCard,
                        !.isReady = FALSE]]
        sp == Spread(s, without, DOMAIN without, FALSE)
        s1 == [s EXCEPT !.phase = "REVEAL", !.turnDeadline = 0,
                        !.thinkingBots = {}, !.turnCards = turns,
                        !.players = sp.players, !.collected = sp.collected,
                        !.resolved = [c \in Cards |-> 0],
                        !.event = [Ev("revealCards", NoPlayer, NoCard, -1, -1,
                                      <<>>, <<>>)
                                   EXCEPT !.players = Serialise(s, currentPlayers)]]
        s2 == syncState(s1, sp.players, currentRows, "REVEAL", NoPlayer)
    IN  Schedule(s2, Closure("startResolving", 0, turns, closureRows,
                             sp.players, -1, NoPlayer, <<>>))

checkAllPlayersSelected(s, currentPlayers, currentRows, closureRows) ==
    IF allSelected(currentPlayers)
    THEN revealCards(s, currentPlayers, currentRows, closureRows)
    ELSE s

\* the array with the object at position i replaced by { ...p, <changes> }
SpreadOne(s, ps, i, changed) ==
    LET sp == Spread(s, [ps EXCEPT ![i] = changed], {i}, FALSE)
    IN  [s EXCEPT !.players = sp.players, !.collected = sp.collected]

handleCardSelect(s, card) ==
    LET me == getMyPlayer(s) IN
    IF s.phase # "PLAYER_CHOICE" \/ me = 0 THEN s
    ELSE IF s.players[me].isReady THEN s
    ELSE [SpreadOne(s, s.players, me, [s.players[me] EXCEPT !.selectedCard = card])
            EXCEPT !.event = Ev("handleCardSelect", s.myPlayerId, card, -1, -1, <<>>, <<>>)]

cancelSelection(s) ==
    LET me == getMyPlayer(s) IN
    IF me = 0 THEN s
    ELSE IF s.players[me].isReady THEN s
    ELSE [SpreadOne(s, s.players, me, [s.players[me] EXCEPT !.selectedCard = NoCard])
            EXCEPT !.event = Ev("cancelSelection", s.myPlayerId, NoCard, -1, -1, <<>>, <<>>)]

confirmSelection(s) ==
    LET me == getMyPlayer(s) IN
    IF me = 0 THEN s
    ELSE IF s.players[me].selectedCard = NoCard THEN s
    ELSE LET s1 == [SpreadOne(s, s.players, me, [s.players[me] EXCEPT !.isReady = TRUE])
                      EXCEPT !.event = Ev("confirmSelection", s.myPlayerId,
                                          s.players[me].selectedCard, -1, -1, <<>>, <<>>)]
             updatedPlayers == s1.players
         IN  IF s.networkMode = "LOCAL"
             THEN checkAllPlayersSelected(s1, updatedPlayers, s.rows, s.rows)
             ELSE IF s.networkMode = "HOST"
             THEN syncState(checkAllPlayersSelected(s1, updatedPlayers, s.rows, s.rows),
                            updatedPlayers, s.rows, s.phase, s.activePlayerId)
             ELSE s1

\* a round score that forgets the number of players: totalHeads - myHeads
calculateRoundScoreFlat(s, p, allPlayers) ==
    LET RECURSIVE Total(_)
        Total(i) == IF i > Len(allPlayers) THEN 0
                    ELSE sumBullHeads(CollectedOf(s, allPlayers[i])) + Total(i + 1)
    IN  Total(1) - sumBullHeads(CollectedOf(s, p))

\* calculateRoundScore(player, allPlayers)
calculateRoundScore(s, p, allPlayers) ==
    LET RECURSIVE Total(_)
        Total(i) == IF i > Len(allPlayers) THEN 0
                    ELSE sumBullHeads(CollectedOf(s, allPlayers[i])) + Total(i + 1)
        myHeads == sumBullHeads(CollectedOf(s, p))
        playerCount == Len(allPlayers)
    IN  Total(1) - (myHeads * playerCount)

calculateScoresAndNextRound(s, currentPlayers, currentRows) ==
    LET withScores == [i \in DOMAIN currentPlayers |->
            LET p == currentPlayers[i]
                roundScore == calculateRoundScore(s, p, currentPlayers)
            IN  [p EXCEPT !.scoreHistory =
                              Append(@, [score |-> roundScore,
                                         heads |-> sumBullHeads(CollectedOf(s, p))]),
                          !.totalScore = @ + roundScore]]
        sp == Spread(s, withScores, DOMAIN withScores, FALSE)
        s1 == [s EXCEPT !.players = sp.players, !.collected = sp.collected,
                        !.phase = "ROUND_VOTING", !.votes = {}, !.turnDeadline = 0,
                        !.event = Ev("calculateScoresAndNextRound", NoPlayer, NoCard,
                                     -1, -1, <<>>, <<>>)]
    IN  syncState(s1, sp.players, currentRows, "ROUND_VOTING", s.activePlayerId)

\* one more application of the step of `card` (history only)
Applied(s, card) ==
    IF card \in DOMAIN s.resolved
    THEN [s EXCEPT !.resolved[card] = @ + 1] ELSE s

\* updatedPlayers[playerIdx].collectedCards = [...collectedCards, ...cards]:
\* an assignment to the shared player object
Collect(s, ps, playerId, cards) ==
    LET o == ps[IndexOf(ps, playerId)].obj
    IN  [s EXCEPT !.collected[o] = @ \o cards]

\* a row that is counted full one card too late
RowFullLate(targetRow) == Len(targetRow) > MaxRowLen

\* targetRow.cards.length >= 5, the row being full
RowFull(targetRow) == Len(targetRow) >= MaxRowLen

processNextTurn(s, index, turns, currentRows, currentPlayers) ==
    IF index >= Len(turns)
    THEN IF Len(currentPlayers[1].hand) = 0
         THEN calculateScoresAndNextRound(s, currentPlayers, currentRows)
         ELSE LET s1 == [s EXCEPT !.phase = "PLAYER_CHOICE", !.turnCards = <<>>,
                                  !.resolvingIndex = -1, !.thinkingBots = {},
                                  !.event = Ev("batchComplete", NoPlayer, NoCard,
                                               -1, index, <<>>, <<>>)]
              IN  syncState(SetDeadline(s1, s.hostConfig), currentPlayers,
                            currentRows, "PLAYER_CHOICE", s.activePlayerId)
    ELSE
    LET turn == turns[index + 1]
        card == turn.card
        rowIndex == findTargetRowIndex(card, currentRows)
        s1 == syncState([s EXCEPT !.resolvingIndex = index], currentPlayers,
                        currentRows, "RESOLVING", s.activePlayerId)
    IN  IF rowIndex # -1
        THEN LET targetRow == currentRows[rowIndex + 1] IN
             IF RowFull(targetRow)
             THEN \* await animateTakingRow(...), then the capture
                  Schedule([s1 EXCEPT !.activePlayerId = turn.playerId,
                                      !.event = Ev("overflow", turn.playerId, card,
                                                   rowIndex, index, s.rows, <<>>)],
                           Closure("takeRow", index, turns, currentRows,
                                   currentPlayers, rowIndex, NoPlayer, <<>>))
             ELSE LET updatedRows == [currentRows EXCEPT ![rowIndex + 1] =
                                          Append(targetRow, card)]
                  IN  Schedule(Applied([s1 EXCEPT !.rows = updatedRows,
                                           !.fresh = TRUE,
                                           !.event = Ev("append", turn.playerId, card,
                                                rowIndex, index, s.rows, <<>>)], card),
                               Closure("processNextTurn", index + 1, turns,
                                       updatedRows, currentPlayers, -1, NoPlayer, <<>>))
        ELSE LET s2 == SetDeadline([s1 EXCEPT !.activePlayerId = turn.playerId,
                                              !.phase = "CHOOSING_ROW",
                                              !.event = Ev("tooLow", turn.playerId, card,
                                                           -1, index, s.rows, <<>>)],
                                   s.hostConfig)
                 s3 == syncState(s2, currentPlayers, currentRows, "CHOOSING_ROW",
                                 turn.playerId)
                 pi == IndexOf(currentPlayers, turn.playerId)
             IN  IF pi # 0 /\ currentPlayers[pi].type = "BOT"
                 THEN Schedule(s3, Closure("botRowChoice", index, turns, currentRows,
                                           currentPlayers, -1, turn.playerId, <<>>))
                 ELSE s3

\* the capture of processNextTurn's overflow branch, after the animation
takeRow(s, index, turns, currentRows, currentPlayers, rowIndex) ==
    LET turn == turns[index + 1]
        targetRow == currentRows[rowIndex + 1]
        s1 == Collect(s, currentPlayers, turn.playerId, targetRow)
        updatedRows == [currentRows EXCEPT ![rowIndex + 1] = <<turn.card>>]
    IN  Schedule(Applied([s1 EXCEPT !.players = currentPlayers, !.rows = updatedRows,
                             !.fresh = TRUE,
                             !.event = Ev("takeRow", turn.playerId, turn.card, rowIndex,
                                          index, s.rows,
                                          StateCollected(s, turn.playerId))],
                         turn.card),
                 Closure("processNextTurn", index + 1, turns, updatedRows,
                         currentPlayers, -1, NoPlayer, <<>>))

startResolving(s, turns, currentPlayers, closureRows) ==
    processNextTurn([s EXCEPT !.phase = "RESOLVING", !.resolvingIndex = 0],
                    0, turns, closureRows, currentPlayers)

\* handleRowSelect up to its await: the guard on the turn and the deadline
handleRowSelect(s, rowIndex, currentPlayers, currentRows, currentTurns, currentIndex) ==
    IF currentIndex < 0 \/ currentIndex >= Len(currentTurns) THEN s
    ELSE Schedule([s EXCEPT !.turnDeadline = 0,
                            !.event = Ev("handleRowSelect",
                                         currentTurns[currentIndex + 1].playerId,
                                         currentTurns[currentIndex + 1].card,
                                         rowIndex, currentIndex, <<>>, <<>>)],
                  Closure("rowSelect", currentIndex, currentTurns, currentRows,
                          currentPlayers, rowIndex, NoPlayer, <<>>))

\* handleRowSelect after animateTakingRow: the capture.  Reading
\* currentRows[rowIndex].cards of a row that does not exist throws before
\* anything is assigned, and the async function ends there
rowSelectDone(s, rowIndex, currentPlayers, currentRows, currentTurns, currentIndex) ==
    IF rowIndex < 0 \/ rowIndex >= Len(currentRows)
    THEN [s EXCEPT !.event = Ev("rowSelectThrows", NoPlayer, NoCard, rowIndex,
                                currentIndex, <<>>, <<>>)]
    ELSE
    LET turn == currentTurns[currentIndex + 1]
        s1 == Collect(s, currentPlayers, turn.playerId, currentRows[rowIndex + 1])
        updatedRows == [currentRows EXCEPT ![rowIndex + 1] = <<turn.card>>]
    IN  Schedule(Applied([s1 EXCEPT !.players = currentPlayers, !.rows = updatedRows,
                             !.phase = "RESOLVING", !.activePlayerId = NoPlayer,
                             !.fresh = TRUE,
                             !.event = Ev("rowTaken", turn.playerId, turn.card, rowIndex,
                                          currentIndex, s.rows,
                                          StateCollected(s, turn.playerId))],
                         turn.card),
                 Closure("processNextTurn", currentIndex + 1, currentTurns,
                         updatedRows, currentPlayers, -1, NoPlayer, <<>>))

onUserSelectRow(s, rowIndex) ==
    IF s.phase # "CHOOSING_ROW" THEN s
    ELSE IF s.activePlayerId # s.myPlayerId THEN s
    ELSE IF s.networkMode = "LOCAL"
    THEN handleRowSelect(s, rowIndex, s.players, s.rows, s.turnCards, s.resolvingIndex)
    ELSE \* no branch for HOST (CLIENT sends the action): the click ends here
         [s EXCEPT !.event = Ev("onUserSelectRow", s.myPlayerId, NoCard, rowIndex,
                                s.resolvingIndex, <<>>, <<>>)]

\* the rows getBotRowChoice may name for a board: the index of a row with
\* the fewest heads (0 for an empty board), or whatever index in
\* 0..NumRows-1 the model call answers (its other answers: see SpecBot)
BotRowChoices(currentRows) == 0..(NumRows - 1)

\* the setPlayers updater of the Bot AI Loop, for the card getBotDecision
\* returned; closureRows is the `rows` of the render the effect ran in.
\* The updater runs either during the next render, where the setState calls
\* of checkAllPlayersSelected are applied after its result, or eagerly inside
\* setPlayers, where its result is enqueued last and overrides them
botDecision(s, botId, card, closureRows, eager) ==
    LET idx == IndexOf(s.players, botId) IN
    IF idx = 0 THEN s
    ELSE IF s.players[idx].isReady THEN s
    ELSE LET s1 == [SpreadOne(s, s.players, idx,
                        [s.players[idx] EXCEPT !.selectedCard = card, !.isReady = TRUE])
                      EXCEPT !.event = Ev("botDecision", botId, card, -1, -1, <<>>, <<>>)]
             newPlayers == s1.players
             s2 == checkAllPlayersSelected(s1, newPlayers, s.rows, closureRows)
         IN  IF eager THEN [s2 EXCEPT !.players = newPlayers] ELSE s2

\* the interval callback of the Timer Enforcement effect once the deadline
\* has passed; env is what the effect's closure captured, pick the values
\* Math.random selects (a hand position per player, a row index)
timerExpired(s, env, pick) ==
    LET s0 == [s EXCEPT !.turnDeadline = 0,
                        !.event = Ev("timerExpired", NoPlayer, NoCard, pick.row, -1,
                                     <<>>, <<>>)]
        done ==
        IF s.phase = "PLAYER_CHOICE"
        THEN LET prev == s.players
                 changedSet == {i \in DOMAIN prev : ~prev[i].isReady}
                 updated == [i \in DOMAIN prev |->
                     IF ~prev[i].isReady
                     THEN [prev[i] EXCEPT
                            !.selectedCard =
                                IF prev[i].selectedCard # NoCard THEN prev[i].selectedCard
                                ELSE IF prev[i].hand = <<>> THEN NoCard
                                ELSE prev[i].hand[(pick.hand[i] % Len(prev[i].hand)) + 1],
                            !.isReady = TRUE]
                     ELSE prev[i]]
                 sp == Spread(s0, updated, changedSet, FALSE)
                 s1 == [s0 EXCEPT !.players = sp.players, !.collected = sp.collected]
             IN  IF changedSet = {} THEN s0
                 ELSE syncState(checkAllPlayersSelected(s1, sp.players, s.rows, env.rows),
                                sp.players, s.rows, "PLAYER_CHOICE", s.activePlayerId)
        ELSE IF s.phase = "CHOOSING_ROW"
        THEN handleRowSelect(s0, pick.row, env.players, env.rows, env.turnCards,
                             env.resolvingIndex)
        ELSE s0
    IN  [done EXCEPT !.event.timer = TRUE]

(* ------------------------- commit of a handler ------------------------- *)

\* Bot AI Loop effect: runs after a commit that changed one of its
\* dependencies [phase, players, rows, networkMode]
botEffect(s) ==
    LET depsChanged == \/ s.fresh
                       \/ s.phase # phase
                       \/ s.players # players
                       \/ s.rows # rows
                       \/ s.networkMode # networkMode
        botsToMove == IF s.networkMode # "CLIENT" /\ s.phase = "PLAYER_CHOICE"
                         /\ depsChanged
                      THEN {i \in DOMAIN s.players :
                                /\ s.players[i].type = "BOT"
                                /\ ~s.players[i].isReady
                                /\ s.players[i].id \notin s.thinkingBots}
                      ELSE {}
        RECURSIVE Start(_, _)
        Start(st, I) ==
            IF I = {} THEN st
            ELSE LET i == Min(I)
                     bot == s.players[i]
                 IN  Start(Schedule([st EXCEPT !.thinkingBots = @ \cup {bot.id}],
                                    Closure("botDecision", -1, <<>>, s.rows, <<>>,
                                            -1, bot.id, bot.hand)),
                           I \ {i})
    IN  Start(s, botsToMove)

\* a Timer Enforcement effect that ran once, when the component mounted:
\* its interval callback keeps the closure of the lobby
timerEffectMounted(s) == [s EXCEPT !.timerEnv = NoEnv]

\* Timer Enforcement effect: the closure of the interval callback is that
\* of the last render in which [turnDeadline, phase, networkMode] changed
timerEffect(s) ==
    IF s.networkMode = "CLIENT" \/ s.turnDeadline <= 0
    THEN [s EXCEPT !.timerEnv = NoEnv]
    ELSE IF \/ s.rearmed
            \/ turnDeadline # s.turnDeadline
            \/ s.phase # phase
            \/ s.networkMode # networkMode
    THEN [s EXCEPT !.timerEnv = [players |-> s.players, rows |-> s.rows,
                                 turnCards |-> s.turnCards,
                                 resolvingIndex |-> s.resolvingIndex]]
    ELSE s

\* player objects that the state or a live closure still refers to
LiveObjs(s) ==
    {s.players[i].obj : i \in DOMAIN s.players}
    \cup UNION {{e.c.players[i].obj : i \in DOMAIN e.c.players} : e \in s.pending}
    \cup {s.timerEnv.players[i].obj : i \in DOMAIN s.timerEnv.players}

\* object identities are names only: the objects of the state are numbered
\* by their position, the others after them, and dead objects are dropped
Renaming(s) ==
    LET inState == {s.players[i].obj : i \in DOMAIN s.players}
        strays == SortAsc(LiveObjs(s) \ inState)
    IN  [o \in LiveObjs(s) |->
            IF o \in inState
            THEN CHOOSE i \in DOMAIN s.players : s.players[i].obj = o
            ELSE Len(s.players) + (CHOOSE k \in DOMAIN strays : strays[k] = o)]

RenamePlayers(ps, map) == [i \in DOMAIN ps |-> [ps[i] EXCEPT !.obj = map[@]]]

Rename(s) ==
    LET map == Renaming(s)
        inv == [n \in {map[o] : o \in DOMAIN map} |->
                    CHOOSE o \in DOMAIN map : map[o] = n]
    IN  [s EXCEPT !.players = RenamePlayers(@, map),
                  !.collected = [n \in DOMAIN inv |-> s.collected[inv[n]]],
                  !.pending = {[e EXCEPT !.c.players = RenamePlayers(@, map)] :
                                   e \in @},
                  !.timerEnv.players = RenamePlayers(@, map)]

\* the state after the handler's batch of setState calls has been rendered
\* and the effects of that render have run
Commit(s) == Rename(timerEffect(botEffect(s)))

Set(s) ==
    \E f \in {Commit(s)} :
    /\ players' = f.players
    /\ rows' = f.rows
    /\ phase' = f.phase
    /\ currentRound' = f.currentRound
    /\ activePlayerId' = f.activePlayerId
    /\ turnCards' = f.turnCards
    /\ resolvingIndex' = f.resolvingIndex
    /\ votes' = f.votes
    /\ turnDeadline' = f.turnDeadline
    /\ hostConfig' = f.hostConfig
    /\ networkMode' = f.networkMode
    /\ myPlayerId' = f.myPlayerId
    /\ thinkingBots' = f.thinkingBots
    /\ collected' = f.collected
    /\ pending' = f.pending
    /\ timerEnv' = f.timerEnv
    /\ actions' = f.actions
    /\ gameState' = f.gameState
    /\ deck' = f.deck
    /\ resolved' = f.resolved
    /\ races' = f.races
    /\ aftermath < MaxAftermath
    /\ aftermath' = IF races >= MaxRaces THEN aftermath + 1 ELSE aftermath
    /\ currentRound <= MaxRound
    /\ event' = f.event

\* the state with closure e taken off the timer queue, as its callback starts
Fired(e) == [S EXCEPT !.pending = RemovePending(@, e.c)]

handleVoteNext(s, vote, rnd) ==
    LET newVotes == {v \in s.votes : v[1] # s.myPlayerId} \cup {<<s.myPlayerId, vote>>}
        s1 == [s EXCEPT !.votes = newVotes,
                        !.event = Ev("handleVoteNext", s.myPlayerId, NoCard, -1, -1,
                                     <<>>, <<>>)]
    IN  IF s.networkMode = "LOCAL"
        THEN IF vote
             THEN [startRound([s1 EXCEPT !.currentRound = @ + 1], s.players,
                              s.hostConfig, s.currentRound, rnd)
                     EXCEPT !.event.name = "handleVoteNext",
                            !.event.player = s.myPlayerId]
             ELSE [s1 EXCEPT !.phase = "GAME_END"]
        ELSE s1

(* ------------------------------- actions ------------------------------- *)

Init ==
    /\ players = <<>>
    /\ rows = <<>>
    /\ phase = "LOBBY"
    /\ currentRound = 1
    /\ activePlayerId = NoPlayer
    /\ turnCards = <<>>
    /\ resolvingIndex = -1
    /\ votes = {}
    /\ turnDeadline = 0
    /\ hostConfig = [totalPlayers |-> MaxPlayers, localHumans |-> 1,
                     turnDuration |-> 20]
    /\ networkMode = "LOCAL"
    /\ myPlayerId = ""
    /\ thinkingBots = {}
    /\ collected = <<>>
    /\ pending = {}
    /\ timerEnv = NoEnv
    /\ actions = <<>>
    /\ gameState = NoGameState
    /\ deck = <<>>
    /\ resolved = [c \in Cards |-> 0]
    /\ races = 0
    /\ aftermath = 0
    /\ event = NoEvent

\* a row choice is awaited: the phase asks for one and none is under way
\* (no capture being animated, no bot asked and still to answer)
RowAwaited ==
    /\ phase = "CHOOSING_ROW"
    /\ ~\E e \in pending : e.c.kind \in {"rowSelect", "botRowChoice"}

\* an input that races the answer the program is already waiting for: a row
\* choice that is not awaited, a deadline that passes before a bot answered
RowRace == ~RowAwaited

CardRace == \E e \in pending : e.c.kind = "botDecision"

\* inputs (clicks, deadlines, messages sent) are taken until the races
\* allowed have happened
InputOpen == races < MaxRaces

\* the state an input arrives in, with the race counted
Arrived(race) == [S EXCEPT !.races = IF race THEN @ + 1 ELSE @]

\* the selects of the lobby: Total Players, Human Players, Turn Timer
SetHostConfigTo(N, H, D) ==
    /\ InputOpen
    /\ phase = "LOBBY" /\ networkMode = "LOCAL"
    /\ \E n \in N, h \in H, d \in D :
        Set([S EXCEPT !.hostConfig = [totalPlayers |-> n, localHumans |-> h,
                                      turnDuration |-> d],
                      !.event = Ev("setHostConfig", NoPlayer, NoCard, -1, -1,
                                   <<>>, <<>>)])

SetHostConfig == SetHostConfigTo(2..MaxPlayers, 1..MaxPlayers, {0, 20})

\* the button Start Local Game: setMyPlayerId('p1'); startRound()
StartLocalGame ==
    /\ InputOpen
    /\ phase = "LOBBY" /\ networkMode = "LOCAL"
    /\ \E seed \in 1..NumSeeds :
        Set(startRound([S EXCEPT !.myPlayerId = "p1"], players, hostConfig,
                       currentRound, Draws(seed)))

\* a click on a card of the own hand (enabled in PLAYER_CHOICE)
CardClick ==
    /\ InputOpen
    /\ phase = "PLAYER_CHOICE" /\ networkMode # "CLIENT"
    /\ getMyPlayer(S) # 0
    /\ \E card \in Range(players[getMyPlayer(S)].hand) :
        Set(handleCardSelect(S, card))

\* the CONFIRM button, shown while a card is selected and not confirmed
ConfirmClick ==
    /\ InputOpen
    /\ phase # "LOBBY" /\ networkMode # "CLIENT"
    /\ getMyPlayer(S) # 0
    /\ players[getMyPlayer(S)].selectedCard # NoCard
    /\ ~players[getMyPlayer(S)].isReady
    /\ Set(confirmSelection(S))

\* the cancel button next to CONFIRM
CancelClick ==
    /\ InputOpen
    /\ phase # "LOBBY" /\ networkMode # "CLIENT"
    /\ getMyPlayer(S) # 0
    /\ players[getMyPlayer(S)].selectedCard # NoCard
    /\ ~players[getMyPlayer(S)].isReady
    /\ Set(cancelSelection(S))

\* a click on a row of the board, which GameBoard lets through while it is
\* this player's turn to choose (also while a capture is being animated)
RowClick ==
    /\ InputOpen
    /\ phase = "CHOOSING_ROW" /\ activePlayerId = myPlayerId
    /\ networkMode # "CLIENT"
    /\ \E rowIndex \in 0..(NumRows - 1) :
        Set(onUserSelectRow(Arrived(RowRace), rowIndex))

\* the button Next Round of the voting overlay
VoteClick ==
    /\ InputOpen
    /\ phase = "ROUND_VOTING" /\ networkMode # "CLIENT"
    /\ <<myPlayerId, TRUE>> \notin votes
    /\ \E seed \in 1..NumSeeds : Set(handleVoteNext(S, TRUE, Draws(seed)))

\* handleVoteNext(false): a stop vote of the local player or the host (the
\* overlay has no button for it); it is taken in any voting phase, also
\* while callbacks of a race are still pending
StopVote ==
    /\ phase = "ROUND_VOTING" /\ networkMode # "CLIENT"
    /\ Set(handleVoteNext(S, FALSE, Draws(1)))

\* the turn deadline passes and the interval callback runs
TimerExpires ==
    /\ (InputOpen \/ phase = "PLAYER_CHOICE")
    /\ networkMode # "CLIENT" /\ turnDeadline > 0
    /\ IF phase = "PLAYER_CHOICE"
       THEN \E hand \in [DOMAIN players -> 0..(HAND_SIZE - 1)] :
                Set(timerExpired(Arrived(CardRace), timerEnv,
                                 [hand |-> hand, row |-> 0]))
       ELSE IF phase = "CHOOSING_ROW"
       THEN \E row \in 0..(NumRows - 1) :
                Set(timerExpired(Arrived(RowRace), timerEnv,
                                 [hand |-> <<>>, row |-> row]))
       ELSE Set(timerExpired(S, timerEnv, [hand |-> <<>>, row |-> 0]))

\* the 2 s timeout of revealCards
StartResolvingFires ==
    \E e \in pending :
        /\ e.c.kind = "startResolving"
        /\ Set(startResolving(Fired(e), e.c.turns, e.c.players, e.c.rows))

\* a 1 s timeout of the resolution chain
ProcessNextTurnFires ==
    \E e \in pending :
        /\ e.c.kind = "processNextTurn"
        /\ Set(processNextTurn(Fired(e), e.c.index, e.c.turns, e.c.rows, e.c.players))

\* the capture animation of an overflow ends
TakeRowFires ==
    \E e \in pending :
        /\ e.c.kind = "takeRow"
        /\ Set(takeRow(Fired(e), e.c.index, e.c.turns, e.c.rows, e.c.players,
                       e.c.rowIndex))

\* the capture animation of a row choice ends
RowSelectFires ==
    \E e \in pending :
        /\ e.c.kind = "rowSelect"
        /\ Set(rowSelectDone(Fired(e), e.c.rowIndex, e.c.players, e.c.rows,
                             e.c.turns, e.c.index))

\* getBotDecision answers; with an empty hand it throws and nothing is set
BotDecisionArrives ==
    \E e \in pending :
        /\ e.c.kind = "botDecision"
        /\ IF e.c.hand = <<>>
           THEN Set([Fired(e) EXCEPT !.event = Ev("botDecisionThrows", e.c.bot, NoCard,
                                                  -1, -1, <<>>, <<>>)])
           ELSE \E card \in Range(e.c.hand), eager \in BOOLEAN :
                    Set(botDecision(Fired(e), e.c.bot, card, e.c.rows, eager))

\* getBotRowChoice answers and the 1.5 s timeout calls handleRowSelect
BotRowChoiceArrives ==
    \E e \in pending :
        /\ e.c.kind = "botRowChoice"
        /\ \E rowIndex \in BotRowChoices(e.c.rows) :
            Set(handleRowSelect(Fired(e), rowIndex, e.c.players, e.c.rows,
                                e.c.turns, e.c.index))

(* ----------------------------- host and clients ------------------------ *)

\* the `rows` of the render in which the host subscribed to the room's
\* actions: the subscription effect depends on [networkMode, roomId] only,
\* so its callback keeps the closure of the lobby, where no row exists yet
HandlerRows == <<>>

\* the button Create as Host (pressed with the Human Players select of the
\* local panel untouched: a host never reads localHumans)
CreateRoom ==
    /\ InputOpen
    /\ phase = "LOBBY" /\ networkMode = "LOCAL"
    /\ hostConfig.localHumans = 1
    /\ LET sp == Spread(S, <<NewPlayer("host", "HUMAN")>>, {1}, TRUE)
       IN  Set([S EXCEPT !.networkMode = "HOST", !.myPlayerId = "host",
                         !.players = sp.players, !.collected = sp.collected,
                         !.event = Ev("createRoom", "host", NoCard, -1, -1, <<>>, <<>>)])

\* the host's button Start Game
HostStartGame ==
    /\ InputOpen
    /\ phase = "LOBBY" /\ networkMode = "HOST"
    /\ \E seed \in 1..NumSeeds :
        Set(startRound(S, players, hostConfig, currentRound, Draws(seed)))

Send(msg) ==
    /\ Len(actions) < MaxActions
    /\ Set([S EXCEPT !.actions = Append(@, msg),
                     !.gameState.confirmed =
                         IF msg.type \in {"ACTION_SELECT_CARD", "ACTION_VOTE_NEXT_ROUND"}
                         THEN @ \cup {msg.playerId} ELSE @,
                     !.event = Ev("sendAction", msg.playerId, msg.card, msg.rowIndex,
                                  -1, <<>>, <<>>)])

Message(type, playerId, card, rowIndex) ==
    [type |-> type, playerId |-> playerId, card |-> card, rowIndex |-> rowIndex,
     vote |-> FALSE]

VoteMessage(playerId, vote) ==
    [Message("ACTION_VOTE_NEXT_ROUND", playerId, NoCard, -1) EXCEPT !.vote = vote]

\* one of the first K clients joins the room before the game starts
ClientJoinsOf(K) ==
    /\ InputOpen
    /\ networkMode = "HOST" /\ phase = "LOBBY"
    /\ \E k \in DOMAIN ClientIds :
        /\ k <= K
        /\ IndexOf(players, ClientIds[k]) = 0
        /\ Send(Message("PLAYER_JOINED", ClientIds[k], NoCard, -1))

ClientJoins == ClientJoinsOf(MaxClients)

\* a client selects a card of the hand its snapshot shows and confirms it
ClientConfirms ==
    /\ InputOpen
    /\ networkMode = "HOST" /\ gameState.phase = "PLAYER_CHOICE"
    /\ \E i \in DOMAIN gameState.players :
        /\ gameState.players[i].id \in Range(ClientIds)
        /\ ~gameState.players[i].isReady
        /\ gameState.players[i].id \notin gameState.confirmed
        /\ \E card \in Range(gameState.players[i].hand) :
            Send(Message("ACTION_SELECT_CARD", gameState.players[i].id, card, -1))

\* a client whose snapshot shows it as the one to choose sends a row index
\* of R (the rows GameBoard draws are those of the board)
ClientSendsRow(R) ==
    /\ InputOpen
    /\ networkMode = "HOST" /\ gameState.phase = "CHOOSING_ROW"
    /\ gameState.activePlayerId \in Range(ClientIds)
    /\ \E rowIndex \in R :
        Send(Message("ACTION_SELECT_ROW", gameState.activePlayerId, NoCard, rowIndex))

ClientClicksRow == ClientSendsRow(0..(NumRows - 1))

\* a client whose snapshot shows the voting overlay casts the votes V (the
\* overlay's only button casts TRUE; its own setVotes disables the button)
ClientVotesWith(V) ==
    /\ InputOpen
    /\ networkMode = "HOST" /\ gameState.phase = "ROUND_VOTING"
    /\ \E i \in DOMAIN gameState.players, vote \in V :
        /\ gameState.players[i].id \in Range(ClientIds)
        /\ gameState.players[i].id \notin gameState.confirmed
        /\ Send(VoteMessage(gameState.players[i].id, vote))

ClientVotes == ClientVotesWith({TRUE})

\* the branch ACTION_VOTE_NEXT_ROUND of the host's action handler: the
\* updater of setVotes, run as in botDecision; cur is gameStateRef.current,
\* and startRound is the one of the render the handler was created in
\* (currentRound = 1)
actionVoteNextRound(s, msg, eager, rnd) ==
    LET prev == s.votes
        newVotes == {v \in prev : v[1] # msg.playerId}
                        \cup {<<msg.playerId, msg.vote>>}
        s0 == [s EXCEPT !.event = Ev("ACTION_VOTE_NEXT_ROUND", msg.playerId, NoCard,
                                     -1, -1, <<>>, <<>>)]
        humans == {i \in DOMAIN s.players : s.players[i].type = "HUMAN"}
    IN  IF ~msg.vote
        THEN [syncState([s0 EXCEPT !.phase = "GAME_END"], s.players, s.rows,
                        "GAME_END", NoPlayer)
                EXCEPT !.votes = newVotes]
        ELSE IF \A i \in humans : <<s.players[i].id, TRUE>> \in newVotes
        THEN [startRound([s0 EXCEPT !.currentRound = @ + 1], s.players,
                         s.hostConfig, 1, rnd)
                EXCEPT !.votes = IF eager THEN newVotes ELSE {},
                       !.event.name = "ACTION_VOTE_NEXT_ROUND",
                       !.event.player = msg.playerId]
        ELSE [s0 EXCEPT !.votes = newVotes]

\* the branch ACTION_SELECT_CARD of the host's action handler; the updater
\* of setPlayers is run as in botDecision
actionSelectCard(s, msg, eager) ==
    LET prev == s.players
        I == {i \in DOMAIN prev : prev[i].id = msg.playerId}
        updated == [i \in DOMAIN prev |->
                        IF i \in I
                        THEN [prev[i] EXCEPT !.selectedCard = msg.card, !.isReady = TRUE]
                        ELSE prev[i]]
        sp == Spread(s, updated, I, FALSE)
        s1 == [s EXCEPT !.players = sp.players, !.collected = sp.collected,
                        !.fresh = TRUE,
                        !.event = Ev("ACTION_SELECT_CARD", msg.playerId, msg.card, -1,
                                     -1, <<>>, <<>>)]
        s2 == checkAllPlayersSelected(s1, sp.players, s.rows, HandlerRows)
    IN  IF eager THEN [s2 EXCEPT !.players = sp.players] ELSE s2

\* the branch PLAYER_JOINED of the host's action handler
playerJoined(s, msg) ==
    IF IndexOf(s.players, msg.playerId) # 0 THEN s
    ELSE LET n == Len(s.players) + 1
             sp == Spread(s, Append(s.players, NewPlayer(msg.playerId, "HUMAN")),
                          {n}, TRUE)
         IN  [s EXCEPT !.players = sp.players, !.collected = sp.collected,
                       !.event = Ev("PLAYER_JOINED", msg.playerId, NoCard, -1, -1,
                                    <<>>, <<>>)]

\* subscribeToActions delivers the oldest message to the host's handler
HostReceives ==
    /\ networkMode = "HOST" /\ actions # <<>>
    /\ LET msg == Head(actions)
           s == [S EXCEPT !.actions = Tail(@)]
       IN  CASE msg.type = "ACTION_SELECT_CARD" ->
                    \E eager \in BOOLEAN : Set(actionSelectCard(s, msg, eager))
             [] msg.type = "ACTION_SELECT_ROW" ->
                    /\ RowRace => races < MaxRaces
                    /\ Set(handleRowSelect([s EXCEPT !.races = IF RowRace THEN @ + 1 ELSE @],
                                           msg.rowIndex, s.players, s.rows, s.turnCards,
                                           s.resolvingIndex))
             [] msg.type = "ACTION_VOTE_NEXT_ROUND" ->
                    \E eager \in BOOLEAN, seed \in 1..NumSeeds :
                        Set(actionVoteNextRound(s, msg, eager, Draws(seed)))
             [] OTHER -> Set(playerJoined(s, msg))

Next ==
    \/ SetHostConfig
    \/ StartLocalGame
    \/ CreateRoom
    \/ HostStartGame
    \/ ClientJoins
    \/ ClientConfirms
    \/ ClientClicksRow
    \/ ClientVotes
    \/ HostReceives
    \/ CardClick
    \/ ConfirmClick
    \/ CancelClick
    \/ RowClick
    \/ VoteClick
    \/ TimerExpires
    \/ StartResolvingFires
    \/ ProcessNextTurnFires
    \/ TakeRowFires
    \/ RowSelectFires
    \/ BotDecisionArrives
    \/ BotRowChoiceArrives

Spec == Init /\ [][Next]_vars

\* the active player of a row choice is a human
HumanActive ==
    \E i \in DOMAIN players :
        players[i].id = activePlayerId /\ players[i].type = "HUMAN"

\* the engine waits for an intent: a phase in which processNextTurn and its
\* callbacks schedule nothing by themselves
Suspended ==
    \/ phase \in {"LOBBY", "PLAYER_CHOICE", "ROUND_VOTING", "GAME_END"}
    \/ phase = "CHOOSING_ROW" /\ HumanActive

\* a room of RoomPlayers seats without a turn timer: the host, the clients
\* that join, and bots on the seats left.  Its humans act, and their
\* messages arrive, only while the engine waits for them
SetRoomConfig == SetHostConfigTo({RoomPlayers}, {1}, {0})

RoomConfirmClick == Suspended /\ ConfirmClick

RoomClientConfirms == Suspended /\ ClientConfirms

RoomClientClicksRow == Suspended /\ ClientClicksRow

RoomHostReceives == Suspended /\ HostReceives

NextRoom ==
    \/ SetRoomConfig
    \/ CreateRoom
    \/ HostStartGame
    \/ ClientJoins
    \/ CardClick
    \/ RoomConfirmClick
    \/ RoomClientConfirms
    \/ RoomClientClicksRow
    \/ RoomHostReceives
    \/ StartResolvingFires
    \/ ProcessNextTurnFires
    \/ TakeRowFires
    \/ RowSelectFires
    \/ BotDecisionArrives
    \/ BotRowChoiceArrives

SpecRoom == Init /\ [][NextRoom]_vars

\* the program with the stop votes its handlers accept: handleVoteNext(false)
\* of the local player or the host, ACTION_VOTE_NEXT_ROUND with vote false
\* of a client
ClientStopVotes == ClientVotesWith({FALSE})

NextStop ==
    \/ Next
    \/ StopVote
    \/ ClientStopVotes

SpecStop == Init /\ [][NextStop]_vars

\* the program with a client whose ACTION_SELECT_ROW names no row of the
\* board: the index before the first row or the one after the last
ClientSendsNoRow == ClientSendsRow({-1, NumRows})

NextNoRow ==
    \/ Next
    \/ ClientSendsNoRow

SpecNoRow == Init /\ [][NextNoRow]_vars

\* the lobby up to the start of a game: the selects in any order (Human
\* Players chosen while Total Players was larger), a room that up to
\* LobbyClients clients join, and the two start buttons
SetLobbyConfig == SetHostConfigTo(2..RoomPlayers, 1..RoomPlayers, {0, 20})

LobbyClientJoins == ClientJoinsOf(LobbyClients)

NextLobby ==
    \/ SetLobbyConfig
    \/ StartLocalGame
    \/ CreateRoom
    \/ LobbyClientJoins
    \/ HostReceives
    \/ HostStartGame

SpecLobby == Init /\ [][NextLobby]_vars

(* ------------------------------- claims -------------------------------- *)

\* how often card c occurs in a sequence of cards
Occ(seq, c) == Cardinality({i \in DOMAIN seq : seq[i] = c})

RECURSIVE SumSeq(_)
SumSeq(ns) == IF ns = <<>> THEN 0 ELSE ns[1] + SumSeq(Tail(ns))

\* the places card c is held in: hands, collectedCards, rows, the entries of
\* the turn batch whose step has not been applied, the undealt deck
Accounted(c) ==
    SumSeq([i \in DOMAIN players |->
                Occ(players[i].hand, c) + Occ(collected[players[i].obj], c)])
    + SumSeq([r \in DOMAIN rows |-> Occ(rows[r], c)])
    + Cardinality({i \in DOMAIN turnCards :
                        turnCards[i].card = c /\ resolved[c] = 0})
    + Occ(deck, c)

\* a round has been dealt
Dealt == rows # <<>>

\* C1: once a round is dealt, every card id is held in exactly one place
\* (a hand, a row, a collectedCards, an unresolved entry of the turn batch,
\* the undealt deck), whatever selections, placements, captures, row
\* choices, bot callbacks and timer expiries have happened
CardAccounting == Dealt => \A c \in Cards : Accounted(c) = 1


\* C2: no step of a turn batch is applied twice, and no two continuations
\* processNextTurn(i+1) are scheduled for the same step, whatever row
\* clicks, ACTION_SELECT_ROW messages, bot answers and timer expiries race
StepIdempotence ==
    /\ \A c \in Cards : resolved[c] <= 1
    /\ \A e1, e2 \in pending :
        (e1.c.kind = "processNextTurn" /\ e2.c.kind = "processNextTurn"
         /\ e1.c.index = e2.c.index) => (e1 = e2 /\ e1.n = 1)

StrictlyIncreasing(row) == \A i \in 1..(Len(row) - 1) : row[i] < row[i + 1]

\* C3: on every reachable board the card ids of each row are strictly
\* increasing from first to last
RowOrdering == \A r \in DOMAIN rows : StrictlyIncreasing(rows[r])

\* a card has been appended to a row that held one already
RowOrderingWitness ==
    /\ event.name = "append"
    /\ Len(rows[event.row + 1]) >= 2
    /\ Last(rows[event.row + 1]) = event.card

\* C4: once a round is dealt the board has exactly NumRows rows (4 in the
\* source) and each holds between 1 and MaxRowLen (5) cards
RowSize ==
    Dealt => /\ Len(rows) = NumRows
             /\ \A r \in DOMAIN rows : Len(rows[r]) >= 1 /\ Len(rows[r]) <= MaxRowLen

\* a capture has just emptied a full row down to the card that took it
RowSizeWitness ==
    /\ event.name = "takeRow"
    /\ Len(event.rowsBefore[event.row + 1]) = MaxRowLen
    /\ rows[event.row + 1] = <<event.card>>


\* the card is lower than the last card of every row of board B
TooLowOn(card, B) == \A r \in DOMAIN B : card < Last(B[r])

\* the row of board B whose last card is the largest one below the card
TargetOn(card, B) ==
    CHOOSE r \in DOMAIN B :
        /\ Last(B[r]) < card
        /\ \A k \in DOMAIN B : Last(B[k]) < card => Last(B[k]) <= Last(B[r])

\* C5: for the card of the current step processNextTurn does exactly one
\* of: enter CHOOSING_ROW and leave the board as it is when the card is
\* lower than the last card of every row; append the card to its target row
\* when that row is not full; start the automatic capture of the target row,
\* without CHOOSING_ROW, when it is full
PlacementDecision ==
    event.name \in {"tooLow", "append", "overflow"} =>
        LET B == event.rowsBefore
            card == event.card
        IN  IF TooLowOn(card, B)
            THEN event.name = "tooLow" /\ phase = "CHOOSING_ROW" /\ rows = B
            ELSE LET r == TargetOn(card, B) IN
                 IF Len(B[r]) < MaxRowLen
                 THEN /\ event.name = "append"
                      /\ rows = [B EXCEPT ![r] = Append(@, card)]
                      /\ phase # "CHOOSING_ROW"
                 ELSE /\ event.name = "overflow"
                      /\ event.row = r - 1
                      /\ rows = B
                      /\ phase # "CHOOSING_ROW"

\* C7: the capture of a full target row leaves the row as the singleton of
\* the card played and appends exactly the cards the row held to the
\* collectedCards of the player who played the card
OverflowCapture ==
    event.name = "takeRow" =>
        LET B == event.rowsBefore
            r == event.row + 1
        IN  /\ Len(B[r]) = MaxRowLen
            /\ rows[r] = <<event.card>>
            /\ StateCollected(S, event.player) = event.collBefore \o B[r]

\* C8: when a row is chosen for a too-low card, the cards of that row are
\* appended to the collectedCards of the player who played the card, the
\* row becomes the singleton of that card, no other row changes, and the
\* too-low event captures once
TooLowCapture ==
    event.name = "rowTaken" =>
        LET B == event.rowsBefore
            r == event.row + 1
        IN  /\ rows[r] = <<event.card>>
            /\ \A k \in DOMAIN rows : k # r => rows[k] = B[k]
            /\ StateCollected(S, event.player) = event.collBefore \o B[r]
            /\ resolved[event.card] = 1

\* the steps of the current batch that have been applied, counted
AppliedSteps == SumSeq([j \in DOMAIN turnCards |-> resolved[turnCards[j].card]])

\* C9: the batch revealCards builds has one entry per player, that player's
\* selectedCard, in strictly ascending card order; its steps are applied one
\* at a time in index order 0, 1, .., n-1 on the batch as it was built
ResolutionOrder ==
    /\ event.name = "revealCards" =>
        /\ Len(turnCards) = Len(event.players)
        /\ \A i \in DOMAIN event.players :
            \E j \in DOMAIN turnCards :
                turnCards[j] = [playerId |-> event.players[i].id,
                                card |-> event.players[i].selectedCard]
    /\ \A i \in 1..(Len(turnCards) - 1) : turnCards[i].card < turnCards[i + 1].card
    /\ event.name \in {"append", "takeRow", "rowTaken"} =>
        /\ event.index + 1 \in DOMAIN turnCards
        /\ turnCards[event.index + 1].card = event.card
        /\ AppliedSteps = event.index + 1

\* C10: revealCards runs only for a players array in which every player,
\* human or bot, has a selectedCard and isReady, so that no entry of the
\* batch shown in REVEAL lacks its card
RevealGuard ==
    /\ event.name = "revealCards" =>
        \A i \in DOMAIN event.players :
            event.players[i].selectedCard # NoCard /\ event.players[i].isReady
    /\ phase = "REVEAL" =>
        \A j \in DOMAIN turnCards : turnCards[j].card # NoCard

\* a game with a bot has been revealed: revealCards has just run and the
\* batch shown in REVEAL has an entry for every player
RevealGuardWitness ==
    /\ phase = "REVEAL"
    /\ event.name = "revealCards"
    /\ \E i \in DOMAIN event.players : event.players[i].type = "BOT"
    /\ Len(turnCards) = MaxPlayers


\* ---- findTargetRowIndex as a function of its arguments ----

\* the cards the boards of the function's check are built from
TargetCards == 1..(2 * NumRows + 1)

\* a row of a board: its cards in ascending order, possibly none
TargetRows == {SortAsc(X) : X \in {Y \in SUBSET TargetCards : Cardinality(Y) <= MaxRowLen}}

\* the boards: up to NumRows rows that share no card
TargetBoards ==
    UNION {{B \in [1..n -> TargetRows] :
                \A i, j \in 1..n : i # j => Range(B[i]) \cap Range(B[j]) = {}}
           : n \in 0..NumRows}

\* a card and a board it is not on, as the arguments of a call to come
InitTarget ==
    /\ players = <<>>
    /\ rows \in TargetBoards
    /\ phase = "RESOLVING"
    /\ currentRound = 1
    /\ activePlayerId = NoPlayer
    /\ turnCards = <<>>
    /\ resolvingIndex = -1
    /\ votes = {}
    /\ turnDeadline = 0
    /\ hostConfig = [totalPlayers |-> MaxPlayers, localHumans |-> 1,
                     turnDuration |-> 20]
    /\ networkMode = "LOCAL"
    /\ myPlayerId = ""
    /\ thinkingBots = {}
    /\ collected = <<>>
    /\ pending = {}
    /\ timerEnv = NoEnv
    /\ actions = <<>>
    /\ gameState = NoGameState
    /\ deck = <<>>
    /\ resolved = [c \in Cards |-> 0]
    /\ races = 0
    /\ aftermath = 0
    /\ \E card \in TargetCards :
        /\ \A r \in DOMAIN rows : card \notin Range(rows[r])
        /\ event = Ev("arguments", NoPlayer, card, -1, -1, rows, <<>>)

\* the call findTargetRowIndex(card, rows), its result kept in event.row
FindTarget ==
    /\ event.name = "arguments"
    /\ event' = Ev("findTargetRowIndex", NoPlayer, event.card,
                   findTargetRowIndex(event.card, rows), -1, rows, <<>>)
    /\ UNCHANGED <<players, rows, phase, currentRound, activePlayerId, turnCards,
                   resolvingIndex, votes, turnDeadline, hostConfig, networkMode,
                   myPlayerId, thinkingBots, collected, pending, timerEnv, actions,
                   gameState, deck, resolved, races, aftermath>>

NextTarget == FindTarget

SpecTarget == InitTarget /\ [][NextTarget]_vars

\* the rows of board B that end below the card
EndsBelow(card, B) == {r \in DOMAIN B : Len(B[r]) > 0 /\ Last(B[r]) < card}

\* C6: findTargetRowIndex(card, rows) is the index of the row whose last
\* card is the largest one strictly below the card, and it is -1 exactly
\* when no row ends below the card
TargetRow ==
    event.name = "findTargetRowIndex" =>
        LET B == event.rowsBefore
            card == event.card
            below == EndsBelow(card, B)
        IN  /\ (event.row = -1) <=> (below = {})
            /\ event.row # -1 =>
                /\ event.row + 1 \in below
                /\ \A k \in below : Last(B[k]) <= Last(B[event.row + 1])

\* a call with two rows ending below the card, the closer one not the first
TargetRowWitness ==
    /\ event.name = "findTargetRowIndex"
    /\ Cardinality(EndsBelow(event.card, event.rowsBefore)) >= 2
    /\ event.row + 1 # Min(EndsBelow(event.card, event.rowsBefore))

\* a call with a card below the end of every row: the answer -1
TargetRowNoneWitness ==
    /\ event.name = "findTargetRowIndex"
    /\ Len(event.rowsBefore) = NumRows
    /\ \A r \in DOMAIN event.rowsBefore : Len(event.rowsBefore[r]) > 0
    /\ event.row = -1


(* --------------------------- batches and votes -------------------------- *)

\* the closures of a resolution chain: a reveal waiting for its 2 s, a
\* step waiting for its second, a capture being animated, a bot asked
ChainKinds == {"startResolving", "processNextTurn", "takeRow", "rowSelect",
               "botRowChoice"}

ChainPending == \E e \in pending : e.c.kind \in ChainKinds

RECURSIVE CountKind(_, _)
\* how many closures of one kind wait on the timer queue
CountKind(pend, kind) ==
    IF pend = {} THEN 0
    ELSE LET e == CHOOSE x \in pend : TRUE
         IN  (IF e.c.kind = kind THEN e.n ELSE 0) + CountKind(pend \ {e}, kind)

\* a step in which revealCards ran: it has scheduled one more startResolving
RevealStep ==
    /\ event'.name = "revealCards"
    /\ CountKind(pending', "startResolving") > CountKind(pending, "startResolving")

\* C11: revealCards runs only in PLAYER_CHOICE and only when no step of an
\* earlier batch is still to be resolved (no reveal, step, capture or bot
\* row choice pending), whichever all-selected checks come close together
BatchExclusivity ==
    [][RevealStep => (phase = "PLAYER_CHOICE" /\ ~ChainPending)]_vars


\* a step in which the human whose turn it is to choose names a row while
\* the choice is awaited: a click that passed the guards of onUserSelectRow,
\* or a client's ACTION_SELECT_ROW handled by the host
HumanRowChoice ==
    /\ RowAwaited
    /\ \E i \in DOMAIN players :
           players[i].id = activePlayerId /\ players[i].type = "HUMAN"
    /\ \/ event'.name = "onUserSelectRow"
       \/ /\ event'.name = "handleRowSelect"
          /\ event'.player = activePlayerId
          /\ \E e \in pending' : e.c.kind = "rowSelect" /\ e \notin pending

\* the capture of row r for step i of the batch is under way, on the board
\* and the batch of the state the choice was made in
CaptureUnderWay(pend, r, i, board, batch) ==
    \E e \in pend :
        /\ e.c.kind = "rowSelect" /\ e.c.rowIndex = r /\ e.c.index = i
        /\ e.c.rows = board /\ e.c.turns = batch

\* C12: in CHOOSING_ROW a row named by the human whose turn it is (local
\* click, the host's own click, a client's ACTION_SELECT_ROW) starts the
\* capture of that row for the step being resolved, with or without a timer
RowChoiceResumption ==
    [][HumanRowChoice =>
          CaptureUnderWay(pending', event'.row, resolvingIndex, rows, turnCards)]_vars

\* C13: outside its suspension points (PLAYER_CHOICE, ROUND_VOTING, a row
\* choice of a human) the engine always has its next step scheduled -- the
\* start of the resolution, the next card, a capture, a bot's row choice --
\* so that from REVEAL it goes on by itself, with no human intent and no
\* timer expiry, until it suspends
EngineSuspends == Suspended \/ ChainPending

\* the hand of player id among ps (empty for a player who is not there)
HandOf(ps, id) ==
    IF IndexOf(ps, id) = 0 THEN <<>> ELSE ps[IndexOf(ps, id)].hand

Without(hand, card) == SelectSeq(hand, LAMBDA c : c # card)

\* a step that deals a new round
DealStep == event'.name \in {"startRound", "handleVoteNext", "ACTION_VOTE_NEXT_ROUND"}

\* C14: a step that reveals a batch takes from every hand exactly the card
\* of that player in the batch, so the hand is shorter by one; any other
\* step of the round (no new deal) leaves every hand as it is
HandSize ==
    [][\A i \in DOMAIN players :
          LET id == players[i].id
              before == players[i].hand
              after == HandOf(players', id)
          IN  IF event'.name = "revealCards"
              THEN /\ \E k \in DOMAIN turnCards' :
                         /\ turnCards'[k].playerId = id
                         /\ after = Without(before, turnCards'[k].card)
                   /\ Len(after) = Len(before) - 1
              ELSE DealStep \/ after = before]_vars

\* C15: when the round is over and its scores are calculated (entry into
\* ROUND_VOTING), every hand dealt at the start of the round has been played
\* out, HAND_SIZE batches of one card each, so every hand is empty, and
\* every player has exactly one scoreHistory entry per round played
RoundCompletion ==
    event.name = "calculateScoresAndNextRound" =>
        /\ phase = "ROUND_VOTING"
        /\ \A i \in DOMAIN players :
              /\ players[i].hand = <<>>
              /\ Len(players[i].scoreHistory) = currentRound

\* the RoundResult a player got last
LastResult(p) == p.scoreHistory[Len(p.scoreHistory)]

\* the heads of every player's collectedCards, and their sum
HeadsOf(i) == sumBullHeads(collected[players[i].obj])

TotalHeads == SumSeq([i \in DOMAIN players |-> HeadsOf(i)])

RoundScores == SumSeq([i \in DOMAIN players |-> LastResult(players[i]).score])

RoundScored == event.name = "calculateScoresAndNextRound"

\* heads and score of every RoundResult of the round just scored
ResultFormula ==
    \A i \in DOMAIN players :
        /\ LastResult(players[i]).heads = HeadsOf(i)
        /\ LastResult(players[i]).score = TotalHeads - HeadsOf(i) * Len(players)

\* C16 as stated: at round end every RoundResult has heads = the bull heads
\* of the player's collectedCards and score = totalHeads - heads *
\* playerCount, and the scores of the round sum to totalHeads * (1 -
\* playerCount)
ScoringFormulaStated ==
    RoundScored => /\ ResultFormula
                   /\ RoundScores = TotalHeads * (1 - Len(players))

\* C16 amended: heads and score are as stated, and the scores of the round
\* sum to 0 (playerCount * totalHeads - playerCount * totalHeads)
ScoringFormula ==
    RoundScored => /\ ResultFormula
                   /\ RoundScores = 0

\* a round is scored in which heads were collected, by one player more than
\* by another
ScoringFormulaWitness ==
    /\ RoundScored
    /\ TotalHeads > 0
    /\ \E i, j \in DOMAIN players : HeadsOf(i) > HeadsOf(j) /\ HeadsOf(j) > 0

\* player q is player p with one RoundResult more, its score added
ResultAdded(p, q) ==
    /\ Len(q.scoreHistory) = Len(p.scoreHistory) + 1
    /\ Take(q.scoreHistory, Len(p.scoreHistory)) = p.scoreHistory
    /\ q.totalScore = p.totalScore + LastResult(q).score

ResultKept(p, q) ==
    /\ q.scoreHistory = p.scoreHistory
    /\ q.totalScore = p.totalScore

\* C17: the step that scores a round gives every player exactly one more
\* RoundResult, the one of that round, and adds its score to totalScore;
\* every other step leaves scoreHistory and totalScore of every player as
\* they are
RoundResultOnce ==
    [][\A i \in DOMAIN players :
          LET j == IndexOf(players', players[i].id)
          IN  j # 0 =>
                IF event'.name = "calculateScoresAndNextRound"
                THEN /\ ResultAdded(players[i], players'[j])
                     /\ Len(players'[j].scoreHistory) = currentRound
                ELSE ResultKept(players[i], players'[j])]_vars

\* a step that deals a new round out of the voting phase
NewRoundStep == phase = "ROUND_VOTING" /\ currentRound' = currentRound + 1

\* player id has voted continue in the voting phase the step ends: before
\* the step, or by the vote the step handles
VotedContinue(id) ==
    \/ <<id, TRUE>> \in votes
    \/ /\ event'.name \in {"handleVoteNext", "ACTION_VOTE_NEXT_ROUND"}
       /\ event'.player = id

\* C18: a new round is dealt out of ROUND_VOTING only when every HUMAN
\* player has voted continue in that voting phase, in LOCAL mode with
\* several humans as in HOST mode
UnanimousContinue ==
    [][NewRoundStep =>
          \A i \in DOMAIN players :
              players[i].type = "HUMAN" => VotedContinue(players[i].id)]_vars

\* a step that handles a stop vote (vote = false) of a human in the voting
\* phase: handleVoteNext(false), or a client's ACTION_VOTE_NEXT_ROUND
StopVoteStep ==
    /\ phase = "ROUND_VOTING"
    /\ event'.name \in {"handleVoteNext", "ACTION_VOTE_NEXT_ROUND"}
    /\ <<event'.player, FALSE>> \in votes'

\* C19: in ROUND_VOTING a stop vote of any human -- the local player in
\* LOCAL mode, the host itself or a client in HOST mode -- moves the phase
\* to GAME_END
StopVoteEnds == [][StopVoteStep => phase' = "GAME_END"]_vars

\* C20: once the phase is GAME_END it stays GAME_END and the round stays
\* the last one played (a deal would set PLAYER_CHOICE), whatever is
\* handled afterwards: votes, card and row selections, joins, deadlines,
\* timeouts of the resolution that were still pending
GameEndTerminal ==
    [][phase = "GAME_END" =>
          /\ phase' = "GAME_END"
          /\ currentRound' = currentRound]_vars


(* ------------------------- intents out of place ------------------------- *)

\* the player whose card is the step being resolved (none outside a batch)
StepOwner ==
    IF resolvingIndex + 1 \in DOMAIN turnCards
    THEN turnCards[resolvingIndex + 1].playerId ELSE NoPlayer

\* the host handles the oldest message, which is of the given type
Handles(type) ==
    /\ networkMode = "HOST" /\ actions # <<>>
    /\ Head(actions).type = type
    /\ actions' = Tail(actions)

\* the collectedCards of every player, by player id
AllCollected == [i \in DOMAIN players |-> <<players[i].id, collected[players[i].obj]>>]

\* C21: an ACTION_SELECT_ROW whose playerId is not the owner of the step
\* being resolved is a no-op: rows, every player's collectedCards, phase
\* and resolvingIndex stay as they are and no capture is started for it
ForeignRowChoice ==
    [][(Handles("ACTION_SELECT_ROW") /\ Head(actions).playerId # StepOwner) =>
          /\ rows' = rows
          /\ AllCollected' = AllCollected
          /\ phase' = phase
          /\ resolvingIndex' = resolvingIndex
          /\ CountKind(pending', "rowSelect") = CountKind(pending, "rowSelect")]_vars

\* C22: an ACTION_SELECT_ROW whose row index is outside the board is
\* rejected with rows, players, phase, resolvingIndex and the turn deadline
\* as they were, so that a later valid choice or the timeout still resolves
\* the step
RowIndexRejected ==
    [][(Handles("ACTION_SELECT_ROW")
        /\ Head(actions).rowIndex \notin 0..(NumRows - 1)) =>
          /\ rows' = rows
          /\ players' = players
          /\ phase' = phase
          /\ resolvingIndex' = resolvingIndex
          /\ turnDeadline' = turnDeadline]_vars

\* the selection (selectedCard, isReady) of player id among ps
SelectionOf(ps, id) ==
    IF IndexOf(ps, id) = 0 THEN <<NoCard, FALSE>>
    ELSE <<ps[IndexOf(ps, id)].selectedCard, ps[IndexOf(ps, id)].isReady>>

\* a step in which a card selection arrives for a player who does not hold
\* the card: a client's ACTION_SELECT_CARD, or the answer of a bot
ForeignCard(id, card) ==
    /\ card \notin Range(HandOf(players, id))
    /\ \/ /\ Handles("ACTION_SELECT_CARD")
          /\ Head(actions).playerId = id /\ Head(actions).card = card
       \/ /\ event'.name = "botDecision"
          /\ event'.player = id /\ event'.card = card

\* C23: a card selection naming a card that is not in the player's hand
\* leaves that player's selectedCard and isReady as they are, and every
\* card revealCards puts into a batch is in its player's hand at that moment
CardFromHand ==
    [][/\ \A id \in Range(ClientIds) \cup Range(BotIds), card \in Cards :
            ForeignCard(id, card) =>
                SelectionOf(players', id) = SelectionOf(players, id)
       /\ event'.name = "revealCards" =>
            \A i \in DOMAIN event'.players :
                event'.players[i].selectedCard \in Range(event'.players[i].hand)]_vars

\* the step leaves players, rows, phase, turnCards and resolvingIndex alone
EngineUnchanged ==
    /\ players' = players
    /\ rows' = rows
    /\ phase' = phase
    /\ turnCards' = turnCards
    /\ resolvingIndex' = resolvingIndex

\* C24: an intent in a phase that does not accept it is a no-op: a card
\* selection outside PLAYER_CHOICE, a row choice outside CHOOSING_ROW (which
\* starts no capture either) and a vote outside ROUND_VOTING, local or
\* received by the host, leave players, rows, phase, turnCards and
\* resolvingIndex unchanged
WrongPhaseNoOp ==
    [][/\ (phase # "PLAYER_CHOICE"
           /\ (Handles("ACTION_SELECT_CARD") \/ event'.name = "handleCardSelect"))
            => EngineUnchanged
       /\ (phase # "CHOOSING_ROW"
           /\ (Handles("ACTION_SELECT_ROW") \/ event'.name = "onUserSelectRow"))
            => /\ EngineUnchanged
               /\ CountKind(pending', "rowSelect") = CountKind(pending, "rowSelect")
       /\ (phase # "ROUND_VOTING"
           /\ (Handles("ACTION_VOTE_NEXT_ROUND") \/ event'.name = "handleVoteNext"))
            => EngineUnchanged]_vars

\* the players startRound is about to deal to
ToBeDealt == InitialPlayers(S, players, hostConfig, currentRound)

\* the configuration startRound is called with cannot be played: the deck
\* is too small for the rows and the hands (4 + 10 * playerCount > 104 in
\* the source), or more humans are configured than players
ConfigError ==
    \/ NumRows + HAND_SIZE * Len(ToBeDealt) > TOTAL_CARDS
    \/ hostConfig.localHumans > hostConfig.totalPlayers

\* C25: with such a configuration startRound deals nothing and the phase
\* stays LOBBY
ConfigRejected ==
    [][(phase = "LOBBY" /\ event'.name = "startRound" /\ ConfigError) =>
          /\ phase' = "LOBBY"
          /\ rows' = rows
          /\ \A i \in DOMAIN players' : players'[i].hand = <<>>]_vars


(* --------------------------- forced defaults ---------------------------- *)

\* a step in which the turn timer expires in PLAYER_CHOICE
CardTimeout == phase = "PLAYER_CHOICE" /\ turnDeadline > 0 /\ event'.timer

\* the selection the timer leaves player p with in the array q it reveals
ForcedCard(p, q) ==
    /\ q.isReady
    /\ IF p.isReady THEN q.selectedCard = p.selectedCard
       ELSE IF p.selectedCard # NoCard THEN q.selectedCard = p.selectedCard
       ELSE q.selectedCard \in Range(p.hand)

\* C26: when the timer expires in PLAYER_CHOICE every player who is not
\* ready gets the card selected tentatively, or else a card of the own
\* hand, and is ready; the ready players keep their selection; and the
\* phase becomes REVEAL, with these cards revealed
ForcedCardDefault ==
    [][CardTimeout =>
          /\ phase' = "REVEAL"
          /\ event'.name = "revealCards"
          /\ Len(event'.players) = Len(players)
          /\ \A i \in DOMAIN players :
                /\ event'.players[i].id = players[i].id
                /\ ForcedCard(players[i], event'.players[i])]_vars

\* a step in which the turn timer expires in CHOOSING_ROW
RowTimeout == phase = "CHOOSING_ROW" /\ turnDeadline > 0 /\ event'.timer

\* the capture of row r for the step being resolved has been started on
\* the board and the batch of the state the timer expired in
ForcedCapture(r) ==
    \E e \in pending' :
        /\ e.c.kind = "rowSelect" /\ e.c.rowIndex = r
        /\ e.c.index = resolvingIndex /\ e.c.turns = turnCards
        /\ e.c.rows = rows
        /\ \A d \in pending : d.c = e.c => e.n = d.n + 1

Num(int, half) == [kind |-> "number", int |-> int, half |-> half]

\* what the model call does: it is skipped (no API key), it throws, it
\* answers a number in the field asked for, or it answers something else
\* (the field missing, null, a string)
ApiOutcomes ==
    {[kind |-> k, int |-> 0, half |-> FALSE] : k \in {"nokey", "throws", "other"}}
    \cup {Num(i, h) : i \in -1..(2 * NumRows + 2), h \in BOOLEAN}

\* the risk score of advancedHeuristicLogic for a card, times 1000
riskScore(card, rws) ==
    LET rowIndex == findTargetRowIndex(card, rws)
        rowPenalties == {sumBullHeads(rws[r]) : r \in DOMAIN rws}
    IN  IF rowIndex = -1
        THEN (1000 + Min(rowPenalties) * 10) * 1000 + card
        ELSE LET targetRow == rws[rowIndex + 1]
                 gap == card - Last(targetRow)
                 cardsInRow == Len(targetRow)
             IN  1000 * (gap
                         + IF cardsInRow = MaxRowLen
                           THEN 5000 + sumBullHeads(targetRow) * 10
                           ELSE IF cardsInRow = MaxRowLen - 1
                           THEN IF gap > 5 THEN 200 ELSE 5
                           ELSE 0)

\* scoredCards.sort((a, b) => a.score - b.score)[0].card: the first card of
\* the hand among those of the lowest score (the sort is stable)
advancedHeuristicLogic(hand, rws) ==
    LET best == Min({riskScore(hand[i], rws) : i \in DOMAIN hand})
    IN  hand[Min({i \in DOMAIN hand : riskScore(hand[i], rws) = best})]

getBotDecision(hand, rws, api) ==
    IF api.kind \in {"nokey", "throws", "other"}
    THEN advancedHeuristicLogic(hand, rws)
    ELSE \* if (result.cardId) { card = hand.find(c => c.id === result.cardId) ..
         IF (api.int # 0 \/ api.half) /\ ~api.half /\ api.int \in Range(hand)
         THEN api.int
         ELSE advancedHeuristicLogic(hand, rws)

\* the forEach of simpleRowChoice from row idx (0-based) on; minHeads -1
\* stands for Infinity
RECURSIVE simpleFrom(_, _, _, _)
simpleFrom(rws, idx, minHeads, bestIndex) ==
    IF idx >= Len(rws) THEN bestIndex
    ELSE LET heads == sumBullHeads(rws[idx + 1])
         IN  IF minHeads = -1 \/ heads < minHeads
             THEN simpleFrom(rws, idx + 1, heads, idx)
             ELSE simpleFrom(rws, idx + 1, minHeads, bestIndex)

simpleRowChoice(rws) == Num(simpleFrom(rws, 0, -1, 0), FALSE)

\* typeof rowIndex === 'number' && rowIndex >= 0 && rowIndex <= 3, the 3
\* being the index of the last row
getBotRowChoice(rws, api) ==
    IF api.kind \in {"nokey", "throws", "other"}
    THEN simpleRowChoice(rws)
    ELSE IF /\ api.int >= 0
            /\ (api.int < NumRows - 1 \/ (api.int = NumRows - 1 /\ ~api.half))
         THEN Num(api.int, api.half)
         ELSE simpleRowChoice(rws)

\* the boards of a round: NumRows rows, none empty
BotBoards == {B \in TargetBoards : Len(B) = NumRows /\ \A r \in DOMAIN B : B[r] # <<>>}

\* a bot with a non-empty hand in front of a board
InitBot ==
    /\ rows \in BotBoards
    /\ \E X \in SUBSET TargetCards :
        /\ X # {} /\ Cardinality(X) <= HAND_SIZE
        /\ \A r \in DOMAIN rows : X \cap Range(rows[r]) = {}
        /\ players = <<[NewPlayer(BotIds[1], "BOT") EXCEPT !.hand = SortAsc(X),
                                                          !.obj = 1]>>
    /\ phase = "PLAYER_CHOICE"
    /\ currentRound = 1
    /\ activePlayerId = NoPlayer
    /\ turnCards = <<>>
    /\ resolvingIndex = -1
    /\ votes = {}
    /\ turnDeadline = 0
    /\ hostConfig = [totalPlayers |-> MaxPlayers, localHumans |-> 1,
                     turnDuration |-> 0]
    /\ networkMode = "LOCAL"
    /\ myPlayerId = ""
    /\ thinkingBots = {}
    /\ collected = <<<<>>>>
    /\ pending = {}
    /\ timerEnv = NoEnv
    /\ actions = <<>>
    /\ gameState = NoGameState
    /\ deck = <<>>
    /\ resolved = [c \in Cards |-> 0]
    /\ races = 0
    /\ aftermath = 0
    /\ event = Ev("arguments", BotIds[1], NoCard, -1, -1, rows, <<>>)

\* what a call leaves alone: everything but the event that records it
BotUnchanged ==
    UNCHANGED <<players, rows, phase, currentRound, activePlayerId, turnCards,
                resolvingIndex, votes, turnDeadline, hostConfig, networkMode,
                myPlayerId, thinkingBots, collected, pending, timerEnv, actions,
                gameState, deck, resolved, races, aftermath>>

\* the call getBotDecision(bot, rows, []), its card kept in event.card
GetBotDecision ==
    \E api \in ApiOutcomes :
        /\ event.name = "arguments"
        /\ event' = Ev("getBotDecision", BotIds[1],
                       getBotDecision(players[1].hand, rows, api), -1, -1, rows,
                       players[1].hand)
        /\ BotUnchanged

\* the call getBotRowChoice(bot, rows): event.row keeps the whole part of
\* the number returned and event.index is 1 when a half comes on top
GetBotRowChoice ==
    \E api \in ApiOutcomes :
        /\ event.name = "arguments"
        /\ event' = LET n == getBotRowChoice(rows, api)
                    IN  Ev("getBotRowChoice", BotIds[1], NoCard, n.int,
                           IF n.half THEN 1 ELSE 0, rows, players[1].hand)
        /\ BotUnchanged

NextBot ==
    \/ GetBotDecision
    \/ GetBotRowChoice

SpecBot == InitBot /\ [][NextBot]_vars

\* C28: for a non-empty hand getBotDecision returns a card of the hand,
\* and for a board of NumRows rows getBotRowChoice returns an integer in
\* 0..NumRows-1, whether the model call is skipped, answers, throws or
\* answers a value outside the hand or the rows
BotLegalDomain ==
    /\ event.name = "getBotDecision" => event.card \in Range(event.collBefore)
    /\ event.name = "getBotRowChoice" =>
            event.index = 0 /\ event.row \in 0..(NumRows - 1)


\* ---- selections of bots and humans ----

\* setPlayers called by a bot's callback, outside any event handler, is
\* queued and rendered in a later task.  Until that render commits, the click
\* handlers on the page are those of the last render, whose `players` is the
\* array from before the callback: the closure "render" keeps that array,
\* while `players` is the state the queue will produce
RenderPending == \E e \in pending : e.c.kind = "render"

\* a bot's decision arrives, does not complete the set, and the render of
\* its setPlayers is still to come
BotDecisionQueued ==
    /\ ~RenderPending
    /\ InputOpen
    /\ phase = "PLAYER_CHOICE"
    /\ \E e \in pending :
        /\ e.c.kind = "botDecision" /\ e.c.hand # <<>>
        /\ \E card \in Range(e.c.hand), eager \in BOOLEAN :
            LET s1 == botDecision(Fired(e), e.c.bot, card, e.c.rows, eager)
            IN  /\ s1.phase = "PLAYER_CHOICE" /\ s1.players # players
                /\ Set(Schedule(s1, Closure("render", -1, <<>>, rows, players, -1,
                                            e.c.bot, <<>>)))

\* the queued update is rendered and the handlers are replaced
RenderCommits ==
    \E e \in pending :
        /\ e.c.kind = "render"
        /\ Set([Fired(e) EXCEPT !.event = Ev("render", e.c.bot, NoCard, -1, -1,
                                             <<>>, <<>>)])

\* the state a handler of the last render reads: its own `players`.  What
\* the handler passes to setPlayers is queued after the bot's updater and
\* replaces its result in the render that follows
LastRender(e) == [Fired(e) EXCEPT !.players = e.c.players]

\* a click on a card of the own hand before the render
StaleCardClick ==
    \E e \in pending :
        /\ e.c.kind = "render"
        /\ networkMode # "CLIENT"
        /\ getMyPlayer(LastRender(e)) # 0
        /\ \E card \in Range(e.c.players[getMyPlayer(LastRender(e))].hand) :
            Set(handleCardSelect(LastRender(e), card))

\* a click on CONFIRM before the render
StaleConfirmClick ==
    \E e \in pending :
        /\ e.c.kind = "render"
        /\ networkMode # "CLIENT"
        /\ getMyPlayer(LastRender(e)) # 0
        /\ e.c.players[getMyPlayer(LastRender(e))].selectedCard # NoCard
        /\ ~e.c.players[getMyPlayer(LastRender(e))].isReady
        /\ Set(confirmSelection(LastRender(e)))

\* a click on the cancel button before the render
StaleCancelClick ==
    \E e \in pending :
        /\ e.c.kind = "render"
        /\ networkMode # "CLIENT"
        /\ getMyPlayer(LastRender(e)) # 0
        /\ e.c.players[getMyPlayer(LastRender(e))].selectedCard # NoCard
        /\ ~e.c.players[getMyPlayer(LastRender(e))].isReady
        /\ Set(cancelSelection(LastRender(e)))

\* the program with renders that come after the callback that asked for
\* them: while one is awaited, the human clicks or the render commits
NextRender ==
    \/ ~RenderPending /\ SetHostConfig
    \/ ~RenderPending /\ StartLocalGame
    \/ ~RenderPending /\ CreateRoom
    \/ ~RenderPending /\ HostStartGame
    \/ ~RenderPending /\ ClientJoins
    \/ ~RenderPending /\ ClientConfirms
    \/ ~RenderPending /\ ClientClicksRow
    \/ ~RenderPending /\ ClientVotes
    \/ ~RenderPending /\ HostReceives
    \/ ~RenderPending /\ CardClick
    \/ ~RenderPending /\ ConfirmClick
    \/ ~RenderPending /\ CancelClick
    \/ ~RenderPending /\ RowClick
    \/ ~RenderPending /\ VoteClick
    \/ ~RenderPending /\ TimerExpires
    \/ ~RenderPending /\ StartResolvingFires
    \/ ~RenderPending /\ ProcessNextTurnFires
    \/ ~RenderPending /\ TakeRowFires
    \/ ~RenderPending /\ RowSelectFires
    \/ ~RenderPending /\ BotDecisionArrives
    \/ ~RenderPending /\ BotRowChoiceArrives
    \/ BotDecisionQueued
    \/ RenderCommits
    \/ StaleCardClick
    \/ StaleConfirmClick
    \/ StaleCancelClick

SpecRender == Init /\ [][NextRender]_vars

\* the step calls revealCards: its event keeps the array that was revealed
Reveals == event' # event /\ event'.name = "revealCards"

\* the players array once the step's selection is applied: the array
\* revealCards was called with if the step completes the set, the new state
\* otherwise
Selected == IF Reveals THEN event'.players ELSE players'

\* the step applies the card decision of bot b: the callback of the Bot AI
\* Loop runs for it
BotStep(b) ==
    \E e \in pending \ pending' : e.c.kind = "botDecision" /\ e.c.bot = b

\* the step is a click of the local human h: a card, the cancel button, or
\* CONFIRM (which may complete the set)
HumanStep(h) ==
    /\ h = myPlayerId /\ event' # event
    /\ \/ /\ event'.name \in {"handleCardSelect", "cancelSelection", "confirmSelection"}
          /\ event'.player = h
       \/ /\ Reveals /\ ~event'.timer
          /\ actions' = actions
          /\ \A e \in pending \ pending' : e.c.kind # "botDecision"

PlayerIds == {players[i].id : i \in DOMAIN players}

\* C29: a step of PLAYER_CHOICE that applies a bot's card decision leaves
\* selectedCard and isReady of every other player as they were, and so does
\* a human's select, cancel or confirm, whatever callbacks and clicks came
\* before it
SelectionsApart ==
    [][phase = "PLAYER_CHOICE" =>
          \A a \in PlayerIds :
              (BotStep(a) \/ HumanStep(a)) =>
                  \A q \in PlayerIds \ {a} :
                      SelectionOf(Selected, q) = SelectionOf(players, q)]_vars


\* ---- determinism of resolution ----

\* the players of the batch
BatchIds == {turnCards[j].playerId : j \in DOMAIN turnCards}

\* the board after the step of `card` on board B, r being the row index
\* received if the card is too low
resolveStep(B, card, r) ==
    LET t == findTargetRowIndex(card, B)
    IN  IF t = -1 THEN [B EXCEPT ![r + 1] = <<card>>]
        ELSE IF RowFull(B[t + 1]) THEN [B EXCEPT ![t + 1] = <<card>>]
        ELSE [B EXCEPT ![t + 1] = Append(@, card)]

\* the cards that step hands to the player of the card
capturedBy(B, card, r) ==
    LET t == findTargetRowIndex(card, B)
    IN  IF t = -1 THEN B[r + 1]
        ELSE IF RowFull(B[t + 1]) THEN B[t + 1]
        ELSE <<>>

\* a step of the batch is applied to the board
StepApplied == resolved' # resolved /\ event'.name \in {"append", "takeRow", "rowTaken"}

\* C30: while a batch is resolved, rows and every player's collectedCards
\* change only when the next step of the batch is applied, and what they
\* become is a function of the board, the collectedCards, the card of the
\* step and the row index received for it: two runs from the same batch and
\* board that receive the same row indices end with the same rows and
\* collectedCards
ResolutionDeterminism ==
    [][(turnCards # <<>> /\ phase \in {"REVEAL", "RESOLVING", "CHOOSING_ROW"}) =>
          IF StepApplied
          THEN LET i == AppliedSteps + 1
                   r == event'.row
               IN  /\ i \in DOMAIN turnCards
                   /\ r \in 0..(Len(rows) - 1)
                   /\ rows' = resolveStep(rows, turnCards[i].card, r)
                   /\ \A id \in BatchIds :
                        StateCollected(S', id) =
                            StateCollected(S, id)
                            \o (IF id = turnCards[i].playerId
                                THEN capturedBy(rows, turnCards[i].card, r)
                                ELSE <<>>)
          ELSE /\ rows' = rows
               /\ \A id \in BatchIds : StateCollected(S', id) = StateCollected(S, id)]_vars


\* ---- frame of a placement ----

\* what a player holds besides the selection: hand, collectedCards,
\* scoreHistory and totalScore; the collectedCards of player `but` left out
Holdings(ps, coll, but) ==
    [i \in DOMAIN ps |->
        [id |-> ps[i].id, hand |-> ps[i].hand,
         collectedCards |-> IF ps[i].id = but THEN <<>> ELSE coll[ps[i].obj],
         scoreHistory |-> ps[i].scoreHistory, totalScore |-> ps[i].totalScore]]

\* C31: an append changes only the target row, by the card at its end, and
\* no player's hand, collectedCards, scoreHistory or totalScore; a capture
\* (of a full row or of a chosen row) changes only the captured row and the
\* collectedCards of the player who captures
PlacementFrame ==
    [][StepApplied =>
          LET r == event'.row + 1 IN
          /\ DOMAIN rows' = DOMAIN rows
          /\ r \in DOMAIN rows
          /\ \A k \in DOMAIN rows : k # r => rows'[k] = rows[k]
          /\ IF event'.name = "append"
             THEN /\ rows'[r] = Append(rows[r], event'.card)
                  /\ Holdings(players', collected', NoPlayer)
                        = Holdings(players, collected, NoPlayer)
             ELSE Holdings(players', collected', event'.player)
                    = Holdings(players, collected, event'.player)]_vars


\* ---- dealing ----

\* a step in which startRound deals: the start of the match or a new round
Deals ==
    \/ phase = "LOBBY" /\ event'.name = "startRound"
    \/ DealStep /\ currentRound' = currentRound + 1

\* the cards on the table after a deal: hands and rows
DealtCards ==
    UNION {Range(players[i].hand) : i \in DOMAIN players}
    \cup UNION {Range(rows[r]) : r \in DOMAIN rows}

\* the state of a round just dealt to players the deck suffices for
FreshRound ==
    NumRows + HAND_SIZE * Len(players) <= TOTAL_CARDS =>
        /\ \A i \in DOMAIN players :
              /\ Len(players[i].hand) = HAND_SIZE
              /\ collected[players[i].obj] = <<>>
              /\ players[i].selectedCard = NoCard
              /\ ~players[i].isReady
        /\ Len(rows) = NumRows
        /\ \A r \in DOMAIN rows : Len(rows[r]) = 1
        /\ DealtCards \subseteq Cards
        /\ Cardinality(DealtCards) = NumRows + HAND_SIZE * Len(players)
        /\ Range(deck) \cap DealtCards = {}
        /\ Cardinality(Range(deck) \cup DealtCards) = TOTAL_CARDS

\* C32: after startRound with players the deck suffices for, every player
\* holds HAND_SIZE cards, the board is NumRows rows of one card, the cards
\* dealt are pairwise distinct cards of one deck of 1..TOTAL_CARDS, and
\* every player's collectedCards is empty, selectedCard null and isReady
\* false
Dealing == [][Deals => FreshRound']_vars

\* a second round has been dealt to players who took cards in the first
DealingWitness ==
    /\ event.name \in {"handleVoteNext", "ACTION_VOTE_NEXT_ROUND"}
    /\ currentRound = 2 /\ phase = "PLAYER_CHOICE"
    /\ \E i \in DOMAIN players : players[i].totalScore # 0
    /\ \A i \in DOMAIN players : Len(players[i].hand) = HAND_SIZE


\* ---- getBullHeads and generateDeck on the deck of the game ----

\* TOTAL_CARDS of gameLogic, the deck the game is played with
FullDeck == 104

\* the deck generateDeck builds for i = 1..n: cards with id and bullHeads
generateCards(n) == [i \in 1..n |-> [id |-> i, bullHeads |-> getBullHeads(i)]]

\* a card number of the deck
InitHeads ==
    /\ players = <<>>
    /\ rows = <<>>
    /\ phase = "LOBBY"
    /\ currentRound = 1
    /\ activePlayerId = NoPlayer
    /\ turnCards = <<>>
    /\ resolvingIndex = -1
    /\ votes = {}
    /\ turnDeadline = 0
    /\ hostConfig = [totalPlayers |-> MaxPlayers, localHumans |-> 1,
                     turnDuration |-> 0]
    /\ networkMode = "LOCAL"
    /\ myPlayerId = ""
    /\ thinkingBots = {}
    /\ collected = <<>>
    /\ pending = {}
    /\ timerEnv = NoEnv
    /\ actions = <<>>
    /\ gameState = NoGameState
    /\ deck = <<>>
    /\ resolved = [c \in Cards |-> 0]
    /\ races = 0
    /\ aftermath = 0
    /\ \E num \in 1..FullDeck :
        event = Ev("arguments", NoPlayer, num, -1, -1, <<>>, <<>>)

\* the call getBullHeads(num), its result kept in event.index
GetBullHeads ==
    /\ event.name = "arguments"
    /\ event' = Ev("getBullHeads", NoPlayer, event.card, -1,
                   getBullHeads(event.card), <<>>, <<>>)
    /\ BotUnchanged

\* the call generateDeck(): of the deck returned, event keeps the id (card)
\* and the bullHeads (index) of the card at the position of the number
GenerateDeck ==
    /\ event.name = "arguments"
    /\ event' = LET card == generateCards(FullDeck)[event.card]
                IN  Ev("generateDeck", NoPlayer, card.id, -1, card.bullHeads,
                       <<>>, <<>>)
    /\ BotUnchanged

NextHeads ==
    \/ GetBullHeads
    \/ GenerateDeck

SpecHeads == InitHeads /\ [][NextHeads]_vars

\* the multiples of k among the card numbers
Multiples(k) == {k * m : m \in 1..FullDeck} \cap 1..FullDeck

\* the penalty of a card number by the table of the game
Penalty(id) ==
    CASE id = 55 -> 7
      [] id \in Multiples(11) \ {55} -> 5
      [] id \in Multiples(10) -> 3
      [] id \in Multiples(5) \ (Multiples(10) \cup {55}) -> 2
      [] OTHER -> 1

\* C33: for every id in 1..104 getBullHeads(id) is 7 for 55, else 5 for a
\* multiple of 11, else 3 for a multiple of 10, else 2 for a multiple of 5,
\* else 1 (7 for 55, 5 for 11, 3 for 100, 2 for 25, 1 for 98, never below
\* 1), and the bullHeads generateDeck stores in a card is getBullHeads(id)
PenaltyFunction ==
    /\ event.name = "getBullHeads" =>
          /\ event.index = Penalty(event.card)
          /\ event.index >= 1
          /\ event.card = 55 => event.index = 7
          /\ event.card = 11 => event.index = 5
          /\ event.card = 100 => event.index = 3
          /\ event.card = 25 => event.index = 2
          /\ event.card = 98 => event.index = 1
    /\ event.name = "generateDeck" => event.index = Penalty(event.card)

\* getBullHeads has answered 7 for card 55
PenaltyFunctionWitness ==
    event.name = "getBullHeads" /\ event.card = 55 /\ event.index = 7


\* ---- shuffleDeck as a function of its argument and the random draws ----

\* the longest deck shuffled
ShuffleLen == 5

\* the values Math.floor(Math.random() * (i + 1)) can take in the
\* iterations i = n-1, .., 1 of the loop: any of 0..i
DrawSeqs(n) == {f \in [1..(n - 1) -> 0..(n - 1)] : \A i \in 1..(n - 1) : f[i] <= i}

\* the two arrays of a call: the argument, which the function only reads
\* (const newDeck = [...deck]), and the array returned
shuffleCall(d, rnd) == [deck |-> d, newDeck |-> shuffleDeck(d, rnd)]

\* a deck to shuffle
InitShuffle ==
    /\ players = <<>>
    /\ rows = <<>>
    /\ phase = "LOBBY"
    /\ currentRound = 1
    /\ activePlayerId = NoPlayer
    /\ turnCards = <<>>
    /\ resolvingIndex = -1
    /\ votes = {}
    /\ turnDeadline = 0
    /\ hostConfig = [totalPlayers |-> MaxPlayers, localHumans |-> 1,
                     turnDuration |-> 0]
    /\ networkMode = "LOCAL"
    /\ myPlayerId = ""
    /\ thinkingBots = {}
    /\ collected = <<>>
    /\ pending = {}
    /\ timerEnv = NoEnv
    /\ actions = <<>>
    /\ gameState = NoGameState
    /\ \E n \in 0..ShuffleLen : deck = [i \in 1..n |-> i]
    /\ resolved = [c \in Cards |-> 0]
    /\ races = 0
    /\ aftermath = 0
    /\ event = Ev("arguments", NoPlayer, NoCard, -1, -1, <<>>, <<>>)

\* the call shuffleDeck(deck): `deck` is the argument after the call, and
\* event keeps the argument as it was (rowsBefore) and the array returned
\* (collBefore)
ShuffleDeck ==
    /\ event.name = "arguments"
    /\ \E rnd \in DrawSeqs(Len(deck)) :
        LET call == shuffleCall(deck, rnd)
        IN  /\ deck' = call.deck
            /\ event' = Ev("shuffleDeck", NoPlayer, NoCard, -1, -1, <<deck>>,
                           call.newDeck)
    /\ UNCHANGED <<players, rows, phase, currentRound, activePlayerId, turnCards,
                   resolvingIndex, votes, turnDeadline, hostConfig, networkMode,
                   myPlayerId, thinkingBots, collected, pending, timerEnv, actions,
                   gameState, resolved, races, aftermath>>

NextShuffle == ShuffleDeck

SpecShuffle == InitShuffle /\ [][NextShuffle]_vars

\* C34: whatever the random draws, shuffleDeck returns a permutation of
\* its argument (same length, every card as often as in the argument) and
\* leaves the argument as it was
ShufflePermutes ==
    event.name = "shuffleDeck" =>
        LET arg == event.rowsBefore[1]
            out == event.collBefore
        IN  /\ Len(out) = Len(arg)
            /\ \A c \in Range(arg) \cup Range(out) : Occ(out, c) = Occ(arg, c)
            /\ deck = arg

\* a deck of ShuffleLen cards has been returned in another order
ShufflePermutesWitness ==
    /\ event.name = "shuffleDeck"
    /\ Len(event.collBefore) = ShuffleLen
    /\ event.collBefore # event.rowsBefore[1]


(* --------------------------- phase transitions -------------------------- *)

\* the phase changes of the game's life cycle.  A handler's setPhase calls
\* are applied together: the deal sets PLAYER_CHOICE in the step that leaves
\* LOBBY or ROUND_VOTING, and startResolving sets RESOLVING and runs step 0
\* at once, so a change through DEALING is seen as a change to
\* PLAYER_CHOICE and one through RESOLVING as REVEAL to CHOOSING_ROW
LegalChanges ==
    { <<"LOBBY", "DEALING">>, <<"DEALING", "PLAYER_CHOICE">>,
      <<"LOBBY", "PLAYER_CHOICE">>,
      <<"PLAYER_CHOICE", "REVEAL">>, <<"REVEAL", "RESOLVING">>,
      <<"REVEAL", "CHOOSING_ROW">>,
      <<"RESOLVING", "CHOOSING_ROW">>, <<"CHOOSING_ROW", "RESOLVING">>,
      <<"RESOLVING", "PLAYER_CHOICE">>, <<"RESOLVING", "ROUND_VOTING">>,
      <<"ROUND_VOTING", "DEALING">>, <<"ROUND_VOTING", "PLAYER_CHOICE">>,
      <<"ROUND_VOTING", "GAME_END">> }

\* C35: the phase changes only along the edges of the life cycle: out of
\* LOBBY and out of ROUND_VOTING by a deal, PLAYER_CHOICE to REVEAL, REVEAL
\* to RESOLVING, RESOLVING to and from CHOOSING_ROW, RESOLVING to
\* PLAYER_CHOICE or ROUND_VOTING at the end of a batch, ROUND_VOTING to
\* GAME_END; no other phase change occurs
LegalPhaseTransitions ==
    [][phase' # phase => <<phase, phase'>> \in LegalChanges]_vars


(* ---------------------------- voting progress --------------------------- *)

\* every HUMAN player of the list has a continue vote in votes
AllVotedContinue ==
    /\ players # <<>>
    /\ \A i \in DOMAIN players :
          players[i].type = "HUMAN" => <<players[i].id, TRUE>> \in votes

\* something is still under way that runs a handler by itself: a message
\* the host has not handled yet, or a timeout or promise not yet run
UnderWay == actions # <<>> \/ pending # {}

\* C36: once every HUMAN player has voted continue in ROUND_VOTING the next
\* round is dealt, whatever the order of the votes and also when the host's
\* own vote is the last one: the voting phase is never left with every
\* continue vote cast and nothing under way that could still deal
VotingProgress ==
    (phase = "ROUND_VOTING" /\ AllVotedContinue) => UnderWay


(* --------------------------- board of step 0 ---------------------------- *)

\* the boards startResolving will hand to step 0: the rows of the closures
\* that wait for the end of the reveal
RevealBoards == {e.c.rows : e \in {x \in pending : x.c.kind = "startResolving"}}

\* C37: whichever event completed the selection set, step 0 of the batch is
\* resolved against the rows that were on the table during the PLAYER_CHOICE
\* just ended, the rows still on the table during the REVEAL: no
\* startResolving waits with an earlier or an empty board
CurrentBoardResolution ==
    phase = "REVEAL" => \A B \in RevealBoards : B = rows


(* --------------------------- equal hand sizes --------------------------- *)

\* processNextTurn has just been called with index >= turns.length
BatchBoundary == event.name \in {"batchComplete", "calculateScoresAndNextRound"}

\* C38: at every batch boundary all players of the players list hold the
\* same number of cards, so that the first player's hand is empty exactly
\* when every hand is; also with PLAYER_JOINED handled after the start
EqualHandSizes ==
    BatchBoundary =>
        \A i, j \in DOMAIN players : Len(players[i].hand) = Len(players[j].hand)


(* ------------------------ the row choice's state ------------------------ *)

\* C39: whenever the phase is CHOOSING_ROW, resolvingIndex is an index of
\* turnCards, activePlayerId is the player of that turn, and the turn's card
\* is lower than the last card of every row of the board
ChoosingRowWellFormed ==
    phase = "CHOOSING_ROW" =>
        /\ 0 <= resolvingIndex /\ resolvingIndex < Len(turnCards)
        /\ activePlayerId = turnCards[resolvingIndex + 1].playerId
        /\ Len(rows) = NumRows
        /\ \A r \in DOMAIN rows : turnCards[resolvingIndex + 1].card < Last(rows[r])


(* ------------------------- confirmed selections ------------------------- *)

\* player p of the list before a step is in the list after it with the
\* same selectedCard and still ready
KeptReady(p) ==
    LET j == IndexOf(players', p.id)
    IN  /\ j # 0
        /\ players'[j].selectedCard = p.selectedCard
        /\ players'[j].isReady

\* C40: a player who is ready in PLAYER_CHOICE keeps selectedCard and
\* isReady in every step up to the reveal of that batch, whatever the step
\* handles: a card click, cancel, a bot's decision, the timer, a repeated
\* ACTION_SELECT_CARD
ConfirmedSelectionFinal ==
    [][(phase = "PLAYER_CHOICE" /\ phase' = "PLAYER_CHOICE") =>
          \A i \in DOMAIN players : players[i].isReady => KeptReady(players[i])]_vars


============================================================================
